---- MODULE Spec2Model ----
(***************************************************************************)
(* Model of the MTG pricer search form (src/src/components/MTGPricer.js,   *)
(* and its later revision in src/unnamed/part_001): the variant selector,  *)
(* the autocomplete suggestion cache with its debounce timer, the pricing  *)
(* lookup and grid, and the Settings dialog (src/unnamed/part_002).        *)
(*                                                                         *)
(* React state is modelled as variables.  An event handler runs against    *)
(* the state of the render that created it (unprimed variables) and the    *)
(* setState calls it makes take effect together afterwards (primed         *)
(* variables).  An async function is one action up to its await and one    *)
(* action per way the awaited promise can settle.                          *)
(***************************************************************************)
EXTENDS Integers, Sequences, FiniteSets, TLC

VARIABLES
  searchTerm,                 \* useState('')
  searchResults,              \* useState([])
  uniqueSets,                 \* useState([])
  selectedSet,                \* useState(null)
  availableCollectorNumbers,  \* useState([])
  selectedCollectorNumber,    \* useState('')
  selectedCardVersion,        \* useState(null)
  selectedLanguage,           \* useState('en')
  selectedFinish,             \* useState('nonfoil')
  availableLanguages,         \* useState([])
  availableFinishes,          \* useState([])
  loading,                    \* useState(false)
  searches,                   \* card searches awaiting their response, oldest first
  error,                      \* useState('')
  suggestions,                \* useState([])
  autocompleteLoading,        \* useState(false)
  cache,                      \* cacheRef.current: a Map, as its entries in insertion order
  debounceTimeoutRef,         \* debounceTimeoutRef.current: 0 is null, else a timer id
  timers,                     \* the runtime's pending setTimeout callbacks
  inflight,                   \* autocomplete fetches awaiting their response, oldest
                              \* first; history: superseded, a later request has
                              \* since displayed the list of another query
  pricing,                    \* useState({lpMarketPrice: null, loading: false, ...})
  pricingFetches,             \* pricing requests awaiting their response, oldest first
  pricingDeps,                \* the dependencies the pricing effect last ran with
  settings,                   \* useState({conditionMultipliers: ..., ...})
  showSettings,               \* useState(false)
  dialog,                     \* the Settings component's state while it is mounted
  store,                      \* localStorage's item 'mtgPricerSettings'
  edits,                      \* history: the number of edits made in the Settings dialog
  lruOrder,                   \* history: cache keys by last hit or insertion, oldest first
  ev                          \* history: the handler that ran last, with its argument

selVars == <<searchResults, uniqueSets, selectedSet, availableCollectorNumbers,
             selectedCollectorNumber, selectedCardVersion, selectedLanguage,
             selectedFinish, availableLanguages, availableFinishes>>
acVars == <<suggestions, autocompleteLoading, cache, debounceTimeoutRef, timers,
            inflight, lruOrder>>
shopVars == <<pricing, pricingFetches, pricingDeps, settings, showSettings, dialog, store,
              edits>>
vars == <<searchTerm, selVars, loading, searches, error, acVars, shopVars, ev>>

----------------------------------------------------------------------------
(* Bounds of the model *)

MaxTimers == 2      \* timer ids the runtime hands out at one time
MaxInFlight == 2    \* autocomplete fetches awaiting a response at one time
Prefill == 48       \* filler entries of the warm initial cache

(* Program constants *)

maxCacheSize == 50
debounceDelay == 750

\* mutant: queries of two characters are fetched
minQueryLengthTwo == 3 - 1

minQueryLength == 3

----------------------------------------------------------------------------
(* JavaScript values *)

Null == [nil |-> "null"]
Undefined == [nil |-> "undefined"]
Truthy(x) == x \notin {Null, Undefined}

Last(s) == s[Len(s)]
Range(s) == {s[i] : i \in 1..Len(s)}

----------------------------------------------------------------------------
(* Pricing state and pricing settings as constructed.  A multiplier, a      *)
(* threshold or a tier bound is a number of hundredths; an object is a      *)
(* function on the keys it has, so that a field the object lacks reads as   *)
(* undefined.                                                               *)

Conditions == <<"NM", "EX", "VG", "G">>

Has(obj, key) == key \in DOMAIN obj
Put(obj, key, value) ==
  [k \in DOMAIN obj \cup {key} |-> IF k = key THEN value ELSE obj[k]]

\* useState({lpMarketPrice: null, loading: false, error: null, productId: null})
InitialPricing ==
  [lpMarketPrice |-> Null, loading |-> FALSE, error |-> Null, productId |-> Null]

\* MTGPricer's useState({conditionMultipliers: ..., darkMode: false})
ParentDefaults ==
  [conditionMultipliers |-> [NM |-> 100, EX |-> 90, VG |-> 75, G |-> 50],
   buyCashMultipliers |-> [NM |-> 85, EX |-> 77, VG |-> 60, G |-> 30],
   creditMultiplier |-> 130,
   darkMode |-> FALSE]

\* The pricing effect's dependencies
PricingDependencies(set, number, finish, version) ==
  [selectedSet |-> set, selectedCollectorNumber |-> number,
   selectedFinish |-> finish, selectedCardVersion |-> version]

\* The page as constructed, with no stored settings: the mount effects have
\* run, loadSettings kept the defaults and the pricing effect cleared the
\* pricing state.
InitShop ==
  /\ pricing = InitialPricing
  /\ pricingFetches = <<>>
  /\ pricingDeps = PricingDependencies(Null, <<>>, "nonfoil", Null)
  /\ settings = ParentDefaults
  /\ showSettings = FALSE
  /\ dialog = Null
  /\ store = Null
  /\ edits = 0

----------------------------------------------------------------------------
(* Suggestion cache and scheduler *)

\* What the user can have in the search box: empty, too short, and long
\* enough; two that differ by case only and two that differ by a trailing space.
Queries == {"", "ab", "abc", "abC", "abc "}

\* The autocomplete service's answer to a query: data.suggestions
Suggest(q) == <<q \o "1", q \o "2">>

FillerKey(i) == "query" \o ToString(i)

Entry(k, v) == [key |-> k, value |-> v]

\* A cache the program reaches by fetching "abc" and then Prefill other queries.
WarmCache ==
  <<Entry("abc", Suggest("abc"))>> \o
  [i \in 1..Prefill |-> Entry(FillerKey(i), Suggest(FillerKey(i)))]

CacheKeys(c) == {c[i].key : i \in 1..Len(c)}

\* Map.prototype.has
CacheHas(c, k) == k \in CacheKeys(c)

\* Map.prototype.get, for a key the map has
CacheGet(c, k) == c[CHOOSE i \in 1..Len(c) : c[i].key = k].value

\* Map.prototype.delete
CacheDelete(c, k) == SelectSeq(c, LAMBDA e : e.key # k)

\* Map.prototype.set: a new key goes last, a present key keeps its place
CacheSet(c, k, v) ==
  IF CacheHas(c, k)
  THEN [i \in 1..Len(c) |-> IF c[i].key = k THEN Entry(k, v) ELSE c[i]]
  ELSE Append(c, Entry(k, v))

\* mutant: a hit leaves the entry where it is
CacheTouchKeepsPlace(c, k) == c

\* fetchAutocomplete, cache hit: "Move to end (most recently used)"
CacheTouch(c, k) == CacheSet(CacheDelete(c, k), k, CacheGet(c, k))

\* mutant: the size check lets one entry too many in
CacheStoreOffByOne(c, k, v) ==
  CacheSet(IF Len(c) > maxCacheSize THEN CacheDelete(c, c[1].key) ELSE c, k, v)

\* mutant: the newest entry is evicted, not the oldest
CacheStoreEvictsNewest(c, k, v) ==
  CacheSet(IF Len(c) >= maxCacheSize THEN CacheDelete(c, Last(c).key) ELSE c, k, v)

\* fetchAutocomplete, after a successful fetch: "Remove oldest entry (first in
\* map)" when the size limit is reached, then store the results
CacheStore(c, k, v) ==
  CacheSet(IF Len(c) >= maxCacheSize THEN CacheDelete(c, c[1].key) ELSE c, k, v)

\* history of uses: k becomes the most recently used key
Used(l, k) == SelectSeq(l, LAMBDA x : x # k) \o <<k>>

\* clearTimeout
ClearTimeout(ts, id) == {t \in ts : t.id # id}

\* setTimeout's return value: an id no pending timer has
FreeTimerIds(ts) == {i \in 1..MaxTimers : \A t \in ts : t.id # i}

\* s without its i-th element
RemoveAt(s, i) == SubSeq(s, 1, i - 1) \o SubSeq(s, i + 1, Len(s))

\* history: the fetches among the first n in flight that a request for query
\* supersedes when its list is displayed
Supersede(fs, n, query) ==
  [j \in 1..Len(fs) |->
     IF j <= n /\ fs[j].query # query THEN [fs[j] EXCEPT !.superseded = TRUE] ELSE fs[j]]

\* debouncedAutocomplete: the pending timers once the previous timeout is cleared
DebounceCleared(ts, ref) == IF ref # 0 THEN ClearTimeout(ts, ref) ELSE ts

\* history: the handler op ran with argument q; x is the cache key it evicted
\* ("" when none), stale whether the response it handled was superseded
Event(op, q, x) == [op |-> op, q |-> q, x |-> x, stale |-> FALSE]

\* the state handleSearch, handleClear and handleAutocompleteChange reset the
\* selection to
ResetSelection ==
  /\ selectedSet' = Null
  /\ selectedCollectorNumber' = <<>>
  /\ selectedCardVersion' = Null
  /\ selectedLanguage' = "en"
  /\ selectedFinish' = "nonfoil"
  /\ availableCollectorNumbers' = <<>>
  /\ availableLanguages' = <<>>
  /\ availableFinishes' = <<>>

FirstName(cards) == IF Len(cards) > 0 THEN cards[1].name ELSE ""

\* debouncedAutocomplete(query)
DebouncedAutocomplete(query) ==
  LET cleared == DebounceCleared(timers, debounceTimeoutRef) IN
  /\ FreeTimerIds(cleared) # {}
  /\ LET id == CHOOSE i \in FreeTimerIds(cleared) : \A j \in FreeTimerIds(cleared) : i <= j IN
     /\ timers' = cleared \cup {[id |-> id, query |-> query, delay |-> debounceDelay]}
     /\ debounceTimeoutRef' = id

\* handleAutocompleteChange(newValue): the Autocomplete's onInputChange
HandleAutocompleteChange(newValue) ==
  /\ searchTerm' = newValue
  /\ IF newValue # FirstName(searchResults) /\ Len(searchResults) > 0
     THEN /\ searchResults' = <<>>
          /\ uniqueSets' = <<>>
          /\ ResetSelection
     ELSE UNCHANGED selVars
  /\ IF newValue # ""
     THEN /\ DebouncedAutocomplete(newValue)
          /\ UNCHANGED suggestions
     ELSE /\ suggestions' = <<>>
          /\ UNCHANGED <<timers, debounceTimeoutRef>>
  /\ ev' = Event("input", newValue, "")
  /\ UNCHANGED <<loading, searches, error, autocompleteLoading, cache, inflight, lruOrder>>
  /\ UNCHANGED shopVars

\* the debounce timer t fires and calls fetchAutocomplete(t.query), which runs
\* up to its await
TimerFire(t) ==
  LET query == t.query IN
  /\ t \in timers
  /\ timers' = timers \ {t}
  /\ IF Len(query) < minQueryLength
     THEN /\ suggestions' = <<>>
          /\ ev' = Event("short", query, "")
          /\ UNCHANGED <<cache, lruOrder, autocompleteLoading, inflight>>
     ELSE IF CacheHas(cache, query)
     THEN /\ cache' = CacheTouch(cache, query)
          /\ suggestions' = CacheGet(cache, query)
          /\ lruOrder' = Used(lruOrder, query)
          /\ ev' = Event("hit", query, "")
          /\ inflight' = Supersede(inflight, Len(inflight), query)
          /\ UNCHANGED autocompleteLoading
     ELSE /\ Len(inflight) < MaxInFlight
          /\ autocompleteLoading' = TRUE
          /\ inflight' = Append(inflight, [query |-> query, superseded |-> FALSE])
          /\ ev' = Event("fetch", query, "")
          /\ UNCHANGED <<cache, lruOrder, suggestions>>
  /\ UNCHANGED <<searchTerm, selVars, loading, searches, error, debounceTimeoutRef>>
  /\ UNCHANGED shopVars

\* fetchAutocomplete after its await: the response is ok and carries results
FetchOk(i) ==
  LET f == inflight[i]
      results == Suggest(f.query)
      stored == CacheStore(cache, f.query, results)
      gone == CacheKeys(cache) \ CacheKeys(stored) IN
  /\ inflight' = RemoveAt(Supersede(inflight, i - 1, f.query), i)
  /\ cache' = stored
  /\ suggestions' = results
  /\ autocompleteLoading' = FALSE
  /\ lruOrder' = IF CacheHas(cache, f.query) THEN lruOrder ELSE Used(lruOrder, f.query)
  /\ ev' = [Event("ok", f.query, IF gone = {} THEN "" ELSE CHOOSE k \in gone : TRUE)
              EXCEPT !.stale = f.superseded]
  /\ UNCHANGED <<searchTerm, selVars, loading, searches, error, debounceTimeoutRef, timers>>
  /\ UNCHANGED shopVars

\* mutant: a failed query is cached with an empty list
FetchFailCachesEmpty(i) ==
  LET f == inflight[i] IN
  /\ inflight' = RemoveAt(Supersede(inflight, i - 1, f.query), i)
  /\ suggestions' = <<>>
  /\ autocompleteLoading' = FALSE
  /\ cache' = CacheStore(cache, f.query, <<>>)
  /\ ev' = [Event("fail", f.query, "") EXCEPT !.stale = f.superseded]
  /\ UNCHANGED <<searchTerm, selVars, loading, searches, error, lruOrder,
                 debounceTimeoutRef, timers>>
  /\ UNCHANGED shopVars

\* fetchAutocomplete after its await: fetch rejected or the response is not ok
FetchFail(i) ==
  LET f == inflight[i] IN
  /\ inflight' = RemoveAt(Supersede(inflight, i - 1, f.query), i)
  /\ suggestions' = <<>>
  /\ autocompleteLoading' = FALSE
  /\ ev' = [Event("fail", f.query, "") EXCEPT !.stale = f.superseded]
  /\ UNCHANGED <<searchTerm, selVars, loading, searches, error, cache, lruOrder,
                 debounceTimeoutRef, timers>>
  /\ UNCHANGED shopVars

\* mutant: Clear leaves the language and finish menus filled
HandleClearKeepsOptions ==
  /\ searchTerm' = ""
  /\ searchResults' = <<>>
  /\ uniqueSets' = <<>>
  /\ selectedSet' = Null
  /\ selectedCollectorNumber' = <<>>
  /\ selectedCardVersion' = Null
  /\ selectedLanguage' = "en"
  /\ selectedFinish' = "nonfoil"
  /\ availableCollectorNumbers' = <<>>
  /\ error' = ""
  /\ suggestions' = <<>>
  /\ timers' = DebounceCleared(timers, debounceTimeoutRef)
  /\ ev' = Event("clear", "", IF Truthy(selectedSet) THEN "selection" ELSE "")
  /\ UNCHANGED <<availableLanguages, availableFinishes, loading, searches,
                 autocompleteLoading, cache, inflight, lruOrder, debounceTimeoutRef>>
  /\ UNCHANGED shopVars

\* handleClear; history: x tells whether a set was selected when it ran
HandleClear ==
  /\ searchTerm' = ""
  /\ searchResults' = <<>>
  /\ uniqueSets' = <<>>
  /\ ResetSelection
  /\ error' = ""
  /\ suggestions' = <<>>
  /\ timers' = DebounceCleared(timers, debounceTimeoutRef)
  /\ ev' = Event("clear", "", IF Truthy(selectedSet) THEN "selection" ELSE "")
  /\ UNCHANGED <<loading, searches, autocompleteLoading, cache, inflight, lruOrder,
                 debounceTimeoutRef>>
  /\ UNCHANGED shopVars

\* The page as constructed, with the cache empty or warm.
InitSuggest ==
  /\ searchTerm = ""
  /\ searchResults = <<>>
  /\ uniqueSets = <<>>
  /\ selectedSet = Null
  /\ availableCollectorNumbers = <<>>
  /\ selectedCollectorNumber = <<>>
  /\ selectedCardVersion = Null
  /\ selectedLanguage = "en"
  /\ selectedFinish = "nonfoil"
  /\ availableLanguages = <<>>
  /\ availableFinishes = <<>>
  /\ loading = FALSE
  /\ searches = <<>>
  /\ error = ""
  /\ suggestions = <<>>
  /\ autocompleteLoading = FALSE
  /\ cache \in {<<>>, WarmCache}
  /\ lruOrder = [i \in 1..Len(cache) |-> cache[i].key]
  /\ debounceTimeoutRef = 0
  /\ timers = {}
  /\ inflight = <<>>
  /\ ev = Event("init", "", "")
  /\ InitShop

NextSuggest ==
  \/ \E newValue \in Queries \ {searchTerm} : HandleAutocompleteChange(newValue)
  \/ \E t \in timers : TimerFire(t)
  \/ \E i \in 1..Len(inflight) : FetchOk(i)
  \/ \E i \in 1..Len(inflight) : FetchFail(i)
  \/ HandleClear

SpecSuggest == InitSuggest /\ [][NextSuggest]_vars

\* The runtime fires a due timer and every fetch settles: its promise is
\* fulfilled or rejected.
SpecSuggestFair ==
  /\ SpecSuggest
  /\ WF_vars(\E t \in timers : TimerFire(t))
  /\ WF_vars(\E i \in 1..Len(inflight) : FetchOk(i) \/ FetchFail(i))

----------------------------------------------------------------------------
(* Strings the code takes apart (set codes, collector numbers) are sequences *)
(* of characters; a decorative glyph is one character, written by its name.  *)

Digits == <<"0", "1", "2", "3", "4", "5", "6", "7", "8", "9">>
IsDigit(c) == c \in Range(Digits)
DigitValue(c) == (CHOOSE i \in 1..Len(Digits) : Digits[i] = c) - 1

\* /[BLACK STAR, WHITE STAR, BLACK FOUR POINTED STAR]/g
Glyphs == {"BLACK_STAR", "WHITE_STAR", "FOUR_STAR"}

\* mutant: only the black star is removed
NormalizeOnlyBlackStar(s) == SelectSeq(s, LAMBDA c : c # "BLACK_STAR")

\* (card.collector_number || '').replace(/[...]/g, '')
NormalizeCollectorNumber(s) == SelectSeq(s, LAMBDA c : c \notin Glyphs)

NaN == -1

RECURSIVE ParseDigits(_, _)
ParseDigits(s, acc) ==
  IF s = <<>> \/ ~IsDigit(Head(s)) THEN acc
  ELSE ParseDigits(Tail(s), 10 * acc + DigitValue(Head(s)))

\* parseInt(s, 10) of a string without sign or white space: the value of its
\* leading digits, NaN when it has none
ParseInt(s) == IF s = <<>> \/ ~IsDigit(Head(s)) THEN NaN ELSE ParseDigits(s, 0)

\* collation order of the characters of the model: symbols, digits, letters
Collation == <<"BLACK_STAR", "WHITE_STAR", "FOUR_STAR">> \o Digits \o
             <<"a", "A", "e", "E", "i", "l", "L", "m", "M", "p", "x">>
CharRank(c) == CHOOSE i \in 1..Len(Collation) : Collation[i] = c

\* String.prototype.toLowerCase
LowerChar(c) ==
  CASE c = "A" -> "a" [] c = "E" -> "e" [] c = "L" -> "l" [] c = "M" -> "m"
    [] OTHER -> c
ToLowerCase(s) == [i \in 1..Len(s) |-> LowerChar(s[i])]

\* String.prototype.localeCompare: negative, zero or positive
RECURSIVE LocaleCompare(_, _)
LocaleCompare(a, b) ==
  IF a = <<>> /\ b = <<>> THEN 0
  ELSE IF a = <<>> THEN -1
  ELSE IF b = <<>> THEN 1
  ELSE IF CharRank(Head(a)) < CharRank(Head(b)) THEN -1
  ELSE IF CharRank(Head(a)) > CharRank(Head(b)) THEN 1
  ELSE LocaleCompare(Tail(a), Tail(b))

\* handleSetSelect's comparator: "Sort collector numbers numerically when possible"
CompareCollectorNumbers(a, b) ==
  IF ParseInt(a) # NaN /\ ParseInt(b) # NaN
  THEN ParseInt(a) - ParseInt(b)
  ELSE LocaleCompare(a, b)

\* processSearchResults' comparator of two set groups
CompareSets(a, b) == LocaleCompare(ToLowerCase(a.code), ToLowerCase(b.code))

Sign(n) == IF n < 0 THEN -1 ELSE IF n > 0 THEN 1 ELSE 0

\* A comparator, given as the function cmp on pairs of S, is consistent
\* (ECMAScript, Array.prototype.sort) when it is a strict weak ordering of S.
ConsistentComparator(S, cmp) ==
  /\ \A a \in S : cmp[a, a] = 0
  /\ \A a, b \in S : Sign(cmp[a, b]) = -Sign(cmp[b, a])
  /\ \A a, b, c \in S :
       /\ cmp[a, b] < 0 /\ cmp[b, c] < 0 => cmp[a, c] < 0
       /\ cmp[a, b] = 0 /\ cmp[b, c] = 0 => cmp[a, c] = 0
       /\ cmp[a, b] = 0 /\ cmp[b, c] < 0 => cmp[a, c] < 0
       /\ cmp[a, b] < 0 /\ cmp[b, c] = 0 => cmp[a, c] < 0

\* x put into the sorted sequence s behind every element not greater than it
RECURSIVE InsertSorted(_, _, _)
InsertSorted(s, x, cmp) ==
  IF s = <<>> THEN <<x>>
  ELSE IF cmp[Last(s), x] > 0
       THEN Append(InsertSorted(SubSeq(s, 1, Len(s) - 1), x, cmp), Last(s))
       ELSE Append(s, x)

RECURSIVE StableSort(_, _)
StableSort(s, cmp) ==
  IF s = <<>> THEN <<>>
  ELSE InsertSorted(StableSort(SubSeq(s, 1, Len(s) - 1), cmp), Last(s), cmp)

Orderings(s) ==
  {p \in [1..Len(s) -> Range(s)] : \A i, j \in 1..Len(s) : p[i] = p[j] => i = j}

\* Array.prototype.sort of distinct elements: the sort is stable, and with a
\* comparator that is not consistent the order is implementation-defined.
SortOutcomes(s, cmp) ==
  IF ConsistentComparator(Range(s), cmp) THEN {StableSort(s, cmp)} ELSE Orderings(s)

\* Set.prototype.add on a Set kept in insertion order
AddUnique(s, x) == IF x \in Range(s) THEN s ELSE Append(s, x)

RECURSIVE AddAllUnique(_, _)
AddAllUnique(s, xs) ==
  IF xs = <<>> THEN s ELSE AddAllUnique(AddUnique(s, Head(xs)), Tail(xs))

----------------------------------------------------------------------------
(* Printing records.  An absent set_code, lang or collector_number is the   *)
(* empty string, which the code treats as it treats undefined; absent        *)
(* finishes are the empty array.                                             *)

Card(name, setCode, setName, number, lang, finishes) ==
  [name |-> name, set_code |-> setCode, set_name |-> setName,
   collector_number |-> number, lang |-> lang, finishes |-> finishes]

lea == <<"l", "e", "a">>
LEA == <<"L", "E", "A">>
m10 == <<"m", "1", "0">>

BoltCards ==
  << Card("Lightning Bolt", lea, "Alpha", <<"1">>, "en", <<"nonfoil", "foil">>),
     Card("Lightning Bolt", lea, "Alpha", <<"1">>, "ja", <<"nonfoil">>),
     Card("Lightning Bolt", lea, "Alpha", <<"2", "BLACK_STAR">>, "en", <<"foil">>),
     Card("Lightning Bolt", m10, "Magic 2010", <<"1", "0">>, "", <<"nonfoil">>),
     Card("Lightning Bolt", m10, "Magic 2010", <<"9">>, "de", <<"etched">>) >>

SpellCards ==
  << Card("Counterspell", <<>>, "", <<>>, "en", <<"nonfoil">>),
     Card("Counterspell", LEA, "Alpha promos", <<"p", "1">>, "ja", <<>>),
     Card("Counterspell", lea, "Alpha", <<"1", "a">>, "en", <<"foil">>),
     Card("Counterspell", lea, "Alpha", <<"1">>, "ja", <<"nonfoil">>),
     Card("Counterspell", lea, "Alpha", <<"1">>, "en", <<"foil">>) >>

CardLists == {BoltCards, SpellCards}

----------------------------------------------------------------------------
(* Printing index *)

CardSetCode(card) == card.set_code
CardCollectorNumber(card) == NormalizeCollectorNumber(card.collector_number)

\* mutant: a record without a set code is dropped
AddCardDropsNoCode(setMap, card) ==
  LET setCode == CardSetCode(card)
      present == \E i \in 1..Len(setMap) : setMap[i].code = setCode
      groups == IF present THEN setMap
                ELSE Append(setMap, [code |-> setCode, name |-> card.set_name,
                                     cards |-> <<>>, collectorNumbers |-> <<>>])
      collectorNum == CardCollectorNumber(card)
  IN IF setCode = <<>> THEN setMap
     ELSE [i \in 1..Len(groups) |->
             IF groups[i].code # setCode THEN groups[i]
             ELSE [groups[i] EXCEPT
                     !.cards = Append(@, card),
                     !.collectorNumbers =
                        IF collectorNum # <<>> THEN AddUnique(@, collectorNum) ELSE @]]

\* processSearchResults' forEach body: the set groups, in the Map's insertion
\* order, with one more card
AddCard(setMap, card) ==
  LET setCode == CardSetCode(card)
      present == \E i \in 1..Len(setMap) : setMap[i].code = setCode
      groups == IF present THEN setMap
                ELSE Append(setMap, [code |-> setCode, name |-> card.set_name,
                                     cards |-> <<>>, collectorNumbers |-> <<>>])
      collectorNum == CardCollectorNumber(card)
  IN [i \in 1..Len(groups) |->
        IF groups[i].code # setCode THEN groups[i]
        ELSE [groups[i] EXCEPT
                !.cards = Append(@, card),
                !.collectorNumbers =
                   IF collectorNum # <<>> THEN AddUnique(@, collectorNum) ELSE @]]

RECURSIVE GroupCards(_, _)
GroupCards(setMap, cards) ==
  IF cards = <<>> THEN setMap ELSE GroupCards(AddCard(setMap, Head(cards)), Tail(cards))

\* processSearchResults(cards).uniqueSets
ProcessSearchResults(cards) ==
  LET groups == GroupCards(<<>>, cards)
      cmp == [pair \in Range(groups) \X Range(groups) |-> CompareSets(pair[1], pair[2])]
  IN StableSort(groups, cmp)

----------------------------------------------------------------------------
(* Variant selector *)

\* searchResults.filter(...): the cards of one set and collector number
MatchingCards(cards, setCode, number) ==
  SelectSeq(cards, LAMBDA card :
    CardSetCode(card) = setCode /\ CardCollectorNumber(card) = number)

\* languages.add(card.lang || 'en') over the matching cards
RECURSIVE CollectLanguages(_, _)
CollectLanguages(acc, cards) ==
  IF cards = <<>> THEN acc
  ELSE CollectLanguages(
         AddUnique(acc, IF Head(cards).lang # "" THEN Head(cards).lang ELSE "en"),
         Tail(cards))

\* card.finishes.forEach(finish => finishes.add(finish)) over the matching cards
RECURSIVE CollectFinishes(_, _)
CollectFinishes(acc, cards) ==
  IF cards = <<>> THEN acc
  ELSE CollectFinishes(AddAllUnique(acc, Head(cards).finishes), Tail(cards))

\* mutant: the first language discovered is the default even when "en" is listed
DefaultLanguageFirst(langArray) ==
  IF langArray = <<>> THEN "" ELSE langArray[1]

\* langArray.includes('en') ? 'en' : langArray[0]
DefaultLanguage(langArray) ==
  IF "en" \in Range(langArray) THEN "en"
  ELSE IF langArray = <<>> THEN "" ELSE langArray[1]

\* finishArray.includes('nonfoil') ? 'nonfoil' : finishArray[0]
DefaultFinish(finishArray) ==
  IF "nonfoil" \in Range(finishArray) THEN "nonfoil"
  ELSE IF finishArray = <<>> THEN "" ELSE finishArray[1]

\* card.lang === language && card.finishes && card.finishes.includes(finish)
VariantMatches(card, language, finish) ==
  card.lang = language /\ finish \in Range(card.finishes)

\* defaultCard || matchingCards[0]
DefaultCard(matchingCards, language, finish) ==
  LET found == SelectSeq(matchingCards, LAMBDA card : VariantMatches(card, language, finish))
  IN IF found # <<>> THEN found[1] ELSE matchingCards[1]

\* mutant: the language and the finish selected for the previous group are kept
ResolveGroupKeepsSelection(matchingCards) ==
  /\ availableLanguages' = CollectLanguages(<<>>, matchingCards)
  /\ availableFinishes' = CollectFinishes(<<>>, matchingCards)
  /\ UNCHANGED <<selectedLanguage, selectedFinish>>
  /\ selectedCardVersion' = DefaultCard(matchingCards, selectedLanguage, selectedFinish)

\* the block both select handlers run on a non-empty matchingCards
ResolveGroup(matchingCards) ==
  LET langArray == CollectLanguages(<<>>, matchingCards)
      finishArray == CollectFinishes(<<>>, matchingCards)
      defaultLang == DefaultLanguage(langArray)
      defaultFinish == DefaultFinish(finishArray)
  IN /\ availableLanguages' = langArray
     /\ availableFinishes' = finishArray
     /\ selectedLanguage' = defaultLang
     /\ selectedFinish' = defaultFinish
     /\ selectedCardVersion' = DefaultCard(matchingCards, defaultLang, defaultFinish)

\* uniqueSets.find(set => set.code === setCode)
FindSet(sets, setCode) ==
  LET found == SelectSeq(sets, LAMBDA set : set.code = setCode)
  IN IF found # <<>> THEN found[1] ELSE Undefined

\* mutant: the collector numbers are left in the order of discovery
SortedCollectorNumbersUnsorted(numbers) == {numbers}

\* Array.from(selectedSetInfo.collectorNumbers).sort(...)
SortedCollectorNumbers(numbers) ==
  SortOutcomes(numbers,
    [pair \in Range(numbers) \X Range(numbers) |->
       CompareCollectorNumbers(pair[1], pair[2])])

\* handleSetSelect(setCode)
HandleSetSelect(setCode) ==
  LET selectedSetInfo == FindSet(uniqueSets, setCode) IN
  /\ selectedSet' = selectedSetInfo
  /\ IF Truthy(selectedSetInfo)
     THEN \E collectorNumbers \in SortedCollectorNumbers(selectedSetInfo.collectorNumbers) :
            /\ availableCollectorNumbers' = collectorNumbers
            /\ IF collectorNumbers # <<>>
               THEN LET lowestCollectorNumber == collectorNumbers[1]
                        matchingCards == MatchingCards(searchResults, selectedSetInfo.code,
                                                       lowestCollectorNumber)
                    IN /\ selectedCollectorNumber' = lowestCollectorNumber
                       /\ IF matchingCards # <<>>
                          THEN ResolveGroup(matchingCards)
                          ELSE UNCHANGED <<availableLanguages, availableFinishes,
                                           selectedLanguage, selectedFinish,
                                           selectedCardVersion>>
               ELSE /\ selectedCollectorNumber' = <<>>
                    /\ selectedCardVersion' = Null
                    /\ selectedLanguage' = "en"
                    /\ selectedFinish' = "nonfoil"
                    /\ availableLanguages' = <<>>
                    /\ availableFinishes' = <<>>
     ELSE UNCHANGED <<availableCollectorNumbers, selectedCollectorNumber,
                      selectedCardVersion, selectedLanguage, selectedFinish,
                      availableLanguages, availableFinishes>>
  /\ ev' = Event("chooseSet", setCode, "")
  /\ UNCHANGED <<searchTerm, searchResults, uniqueSets, loading, searches, error, acVars>>
  /\ UNCHANGED shopVars

\* handleCollectorNumberSelect(collectorNumber)
HandleCollectorNumberSelect(collectorNumber) ==
  /\ selectedCollectorNumber' = collectorNumber
  /\ IF Truthy(selectedSet) /\ collectorNumber # <<>>
     THEN LET matchingCards == MatchingCards(searchResults, selectedSet.code, collectorNumber)
          IN IF matchingCards # <<>>
             THEN ResolveGroup(matchingCards)
             ELSE UNCHANGED <<availableLanguages, availableFinishes, selectedLanguage,
                              selectedFinish, selectedCardVersion>>
     ELSE UNCHANGED <<availableLanguages, availableFinishes, selectedLanguage,
                      selectedFinish, selectedCardVersion>>
  /\ ev' = Event("chooseCollectorNumber", collectorNumber, "")
  /\ UNCHANGED <<searchTerm, searchResults, uniqueSets, selectedSet,
                 availableCollectorNumbers, loading, searches, error, acVars>>
  /\ UNCHANGED shopVars

\* getCurrentCardVariant(), of the state given
GetCurrentCardVariant(cards, set, number, language, finish, version) ==
  IF ~Truthy(set) \/ number = <<>> \/ language = "" \/ finish = ""
  THEN version
  ELSE LET found == SelectSeq(cards, LAMBDA card :
                      /\ CardSetCode(card) = set.code
                      /\ CardCollectorNumber(card) = number
                      /\ VariantMatches(card, language, finish))
       IN IF found # <<>> THEN found[1] ELSE version

\* getCurrentCardVariant() as the handler that is running sees it: the
\* language and finish it reads are those of the render that created it
CurrentVariantInHandler ==
  GetCurrentCardVariant(searchResults, selectedSet, selectedCollectorNumber,
                        selectedLanguage, selectedFinish, selectedCardVersion)

\* handleLanguageOrFinishChange()
HandleLanguageOrFinishChange ==
  IF Truthy(selectedSet) /\ selectedCollectorNumber # <<>> /\ Truthy(CurrentVariantInHandler)
  THEN selectedCardVersion' = CurrentVariantInHandler
  ELSE UNCHANGED selectedCardVersion

\* the language Select's onChange
SetLanguage(language) ==
  /\ selectedLanguage' = language
  /\ HandleLanguageOrFinishChange
  /\ ev' = Event("setLanguage", language, "")
  /\ UNCHANGED <<searchTerm, searchResults, uniqueSets, selectedSet,
                 availableCollectorNumbers, selectedCollectorNumber, selectedFinish,
                 availableLanguages, availableFinishes, loading, searches, error, acVars>>
  /\ UNCHANGED shopVars

\* the finish Select's onChange
SetFinish(finish) ==
  /\ selectedFinish' = finish
  /\ HandleLanguageOrFinishChange
  /\ ev' = Event("setFinish", finish, "")
  /\ UNCHANGED <<searchTerm, searchResults, uniqueSets, selectedSet,
                 availableCollectorNumbers, selectedCollectorNumber, selectedLanguage,
                 availableLanguages, availableFinishes, loading, searches, error, acVars>>
  /\ UNCHANGED shopVars

\* Arguments of the selector's operations: the keys of the groups, and keys
\* no group has.
SetCodeArgs == {lea, LEA, m10, <<>>, <<"x">>}
CollectorNumberArgs == {<<>>, <<"1">>, <<"2">>, <<"9">>, <<"1", "0">>, <<"1", "a">>,
                        <<"p", "1">>, <<"7">>}
LanguageArgs == {"en", "ja", "de", "fr"}
FinishArgs == {"nonfoil", "foil", "etched"}

\* The page after a search that returned cards (handleSearch's reset), or as
\* constructed.
InitSelector ==
  /\ searchResults \in CardLists \cup {<<>>}
  /\ searchTerm = FirstName(searchResults)
  /\ uniqueSets = ProcessSearchResults(searchResults)
  /\ selectedSet = Null
  /\ availableCollectorNumbers = <<>>
  /\ selectedCollectorNumber = <<>>
  /\ selectedCardVersion = Null
  /\ selectedLanguage = "en"
  /\ selectedFinish = "nonfoil"
  /\ availableLanguages = <<>>
  /\ availableFinishes = <<>>
  /\ loading = FALSE
  /\ searches = <<>>
  /\ error = ""
  /\ suggestions = <<>>
  /\ autocompleteLoading = FALSE
  /\ cache = <<>>
  /\ lruOrder = <<>>
  /\ debounceTimeoutRef = 0
  /\ timers = {}
  /\ inflight = <<>>
  /\ ev = Event("init", "", "")
  /\ InitShop

NextSelector ==
  \/ \E setCode \in SetCodeArgs : HandleSetSelect(setCode)
  \/ \E collectorNumber \in CollectorNumberArgs : HandleCollectorNumberSelect(collectorNumber)
  \/ \E language \in LanguageArgs : SetLanguage(language)
  \/ \E finish \in FinishArgs : SetFinish(finish)
  \/ HandleClear

SpecSelector == InitSelector /\ [][NextSelector]_vars

----------------------------------------------------------------------------
(* Card search *)

\* !term.trim(): the term is empty or white space
Blank(term) == term \in {"", " "}

\* What the search service can answer with when it has cards for the term
SearchResponses == CardLists

\* err.message of the errors performSearch catches
SearchErrors == {"Failed to search for cards", "No cards found with that name"}

\* performSearch(term), up to its await, for a term that is not blank
PerformSearch(term) ==
  /\ loading' = TRUE
  /\ error' = ""
  /\ searches' = Append(searches, [term |-> term])

\* handleSearch: the form's onSubmit
HandleSearch ==
  /\ IF Blank(searchTerm)
     THEN UNCHANGED <<loading, error, searches>>
     ELSE PerformSearch(searchTerm)
  /\ ev' = Event(IF Blank(searchTerm) THEN "noSearch" ELSE "search", searchTerm, "")
  /\ UNCHANGED <<searchTerm, selVars, acVars>>
  /\ UNCHANGED shopVars

\* handleAutocompleteSelect(event, newValue): the Autocomplete's onChange
HandleAutocompleteSelect(newValue) ==
  /\ IF Blank(newValue)
     THEN UNCHANGED <<searchTerm, suggestions, loading, error, searches>>
     ELSE /\ searchTerm' = newValue
          /\ suggestions' = <<>>
          /\ PerformSearch(newValue)
  /\ ev' = Event(IF Blank(newValue) THEN "noSearch" ELSE "select", newValue, "")
  /\ UNCHANGED <<selVars, autocompleteLoading, cache, debounceTimeoutRef, timers,
                 inflight, lruOrder>>
  /\ UNCHANGED shopVars

\* performSearch after its awaits: the response is ok and carries cards
SearchOk(i, cards) ==
  /\ searches' = RemoveAt(searches, i)
  /\ searchResults' = cards
  /\ uniqueSets' = ProcessSearchResults(cards)
  /\ ResetSelection
  /\ loading' = FALSE
  /\ ev' = Event("searchOk", searches[i].term, "")
  /\ UNCHANGED <<searchTerm, error, acVars>>
  /\ UNCHANGED shopVars

\* mutant: the catch block leaves the results of the previous search
SearchFailKeepsResults(i, message) ==
  /\ searches' = RemoveAt(searches, i)
  /\ error' = message
  /\ selectedCardVersion' = Null
  /\ loading' = FALSE
  /\ ev' = Event("searchFail", searches[i].term, "")
  /\ UNCHANGED <<searchTerm, searchResults, uniqueSets, selectedSet,
                 availableCollectorNumbers, selectedCollectorNumber, selectedLanguage,
                 selectedFinish, availableLanguages, availableFinishes, acVars>>
  /\ UNCHANGED shopVars

\* performSearch after its awaits: fetch rejected, the response is not ok, or
\* it carries no cards; the catch block runs with the error's message
SearchFail(i, message) ==
  /\ searches' = RemoveAt(searches, i)
  /\ error' = message
  /\ searchResults' = <<>>
  /\ selectedCardVersion' = Null
  /\ loading' = FALSE
  /\ ev' = Event("searchFail", searches[i].term, "")
  /\ UNCHANGED <<searchTerm, uniqueSets, selectedSet, availableCollectorNumbers,
                 selectedCollectorNumber, selectedLanguage, selectedFinish,
                 availableLanguages, availableFinishes, acVars>>
  /\ UNCHANGED shopVars

\* What the user types in the search form: nothing, white space, a name
SearchInputs == {"", " ", "abc"}

\* The page as constructed, with the cache empty.
InitSearch ==
  /\ InitSuggest
  /\ cache = <<>>

\* The search form: the input and the submit are disabled while a search is
\* loading, the Clear button is not; the set menu is rendered while there are
\* search results and offers the set groups.
NextSearch ==
  \/ ~loading /\ \E newValue \in SearchInputs \ {searchTerm} :
                    HandleAutocompleteChange(newValue)
  \/ ~loading /\ HandleSearch
  \/ ~loading /\ \E newValue \in Range(suggestions) : HandleAutocompleteSelect(newValue)
  \/ \E t \in timers : TimerFire(t)
  \/ \E i \in 1..Len(inflight) : FetchOk(i)
  \/ \E i \in 1..Len(inflight) : FetchFail(i)
  \/ \E i \in 1..Len(searches), cards \in SearchResponses : SearchOk(i, cards)
  \/ \E i \in 1..Len(searches), message \in SearchErrors : SearchFail(i, message)
  \/ Len(searchResults) > 0 /\ \E i \in 1..Len(uniqueSets) :
                                 HandleSetSelect(uniqueSets[i].code)
  \/ HandleClear

SpecSearch == InitSearch /\ [][NextSearch]_vars

----------------------------------------------------------------------------
(* The printing index on every ordering of its input *)

\* Records with an absent set code and collector number, with two set codes
\* that differ by case only, and with numbers found as 10 before 9.
IndexCardsByCase ==
  << Card("Counterspell", lea, "Alpha", <<"1", "0">>, "en", <<"nonfoil">>),
     Card("Counterspell", lea, "Alpha", <<"9", "BLACK_STAR">>, "en", <<"foil">>),
     Card("Counterspell", LEA, "Alpha promos", <<"p", "1">>, "ja", <<"nonfoil">>),
     Card("Counterspell", <<>>, "", <<>>, "en", <<"nonfoil">>) >>

\* Records of one set that mixes numeric and non-numeric collector numbers.
IndexCardsMixed ==
  << Card("Lightning Bolt", lea, "Alpha", <<"1", "a">>, "en", <<"nonfoil">>),
     Card("Lightning Bolt", lea, "Alpha", <<"1">>, "en", <<"nonfoil">>),
     Card("Lightning Bolt", lea, "Alpha", <<"p", "FOUR_STAR", "1">>, "en", <<"foil">>),
     Card("Lightning Bolt", m10, "Magic 2010", <<"WHITE_STAR", "2", "WHITE_STAR">>, "en",
          <<"nonfoil">>) >>

\* searchData.cards: the service returns the records in any order
IndexInputs == Orderings(IndexCardsByCase) \cup Orderings(IndexCardsMixed)

\* The page while its first search is loading: "abc" was typed, its
\* suggestions could not be fetched, and the form was submitted.
InitIndex ==
  /\ searchTerm = "abc"
  /\ searchResults = <<>>
  /\ uniqueSets = <<>>
  /\ selectedSet = Null
  /\ availableCollectorNumbers = <<>>
  /\ selectedCollectorNumber = <<>>
  /\ selectedCardVersion = Null
  /\ selectedLanguage = "en"
  /\ selectedFinish = "nonfoil"
  /\ availableLanguages = <<>>
  /\ availableFinishes = <<>>
  /\ loading = TRUE
  /\ searches = <<[term |-> "abc"]>>
  /\ error = ""
  /\ suggestions = <<>>
  /\ autocompleteLoading = FALSE
  /\ cache = <<>>
  /\ lruOrder = <<>>
  /\ debounceTimeoutRef = 1
  /\ timers = {}
  /\ inflight = <<>>
  /\ ev = Event("search", "abc", "")
  /\ InitShop

NextIndex ==
  \/ \E i \in 1..Len(searches), cards \in IndexInputs : SearchOk(i, cards)
  \/ ~loading /\ HandleSearch
  \/ Len(searchResults) > 0 /\ \E i \in 1..Len(uniqueSets) :
                                 HandleSetSelect(uniqueSets[i].code)

SpecIndex == InitIndex /\ [][NextIndex]_vars

----------------------------------------------------------------------------
(* Settings: the store and the Settings dialog (src/unnamed/part_002).      *)
(* A text field's value and a number in a JSON text are sequences of        *)
(* characters.  A string that a field holds beside null (an error message,  *)
(* a product id) is a record around the string.                             *)

Message(text) == [message |-> text]

\* the digits of a natural number
RECURSIVE NaturalToString(_)
NaturalToString(n) ==
  IF n < 10 THEN <<Digits[n + 1]>>
  ELSE Append(NaturalToString(n \div 10), Digits[(n % 10) + 1])

\* Number::toString of a number of hundredths, as JSON.stringify writes it:
\* the shortest decimal notation
NumberToString(n) ==
  NaturalToString(n \div 100) \o
    (IF n % 100 = 0 THEN <<>>
     ELSE <<".", Digits[((n % 100) \div 10) + 1]>> \o
          (IF n % 10 = 0 THEN <<>> ELSE <<Digits[(n % 10) + 1]>>))

\* the digits at the head of s
RECURSIVE LeadingDigits(_)
LeadingDigits(s) ==
  IF s = <<>> \/ ~IsDigit(Head(s)) THEN <<>> ELSE <<Head(s)>> \o LeadingDigits(Tail(s))

\* parseFloat(s) of a string without sign, exponent or white space and with
\* at most two decimals, in hundredths: the longest prefix that is a number,
\* NaN when there is none
ParseFloat(s) ==
  LET whole == LeadingDigits(s)
      rest == SubSeq(s, Len(whole) + 1, Len(s))
      decimals == IF rest # <<>> /\ Head(rest) = "." THEN LeadingDigits(Tail(rest))
                  ELSE <<>>
      hundredths == ParseDigits(SubSeq(decimals \o <<"0", "0">>, 1, 2), 0)
  IN IF whole = <<>> /\ decimals = <<>> THEN NaN
     ELSE 100 * ParseDigits(whole, 0) + hundredths

NumberKeys == {"basePriceModifier", "creditMultiplier", "bulkThreshold", "highEndThreshold"}
TableKeys == {"conditionMultipliers", "buyCashMultipliers"}

\* JSON.stringify of a table of multipliers and of a pricing tier
StringifyTable(table) ==
  [object |-> [c \in DOMAIN table |-> [number |-> NumberToString(table[c])]]]
StringifyTier(tier) ==
  [object |-> [name |-> [string |-> tier.name],
               lowerBound |-> [number |-> NumberToString(tier.lowerBound)],
               multiplier |-> [number |-> NumberToString(tier.multiplier)]]]

\* JSON.stringify(settings): the text, as the tree of its grammar.  A key the
\* object lacks is not written.
JsonStringify(config) ==
  [json |-> [object |-> [k \in DOMAIN config |->
     CASE k \in NumberKeys -> [number |-> NumberToString(config[k])]
       [] k \in TableKeys -> StringifyTable(config[k])
       [] k = "pricingTiers" ->
            [array |-> [i \in 1..Len(config[k]) |-> StringifyTier(config[k][i])]]
       [] OTHER -> [boolean |-> config[k]]]]]

\* JSON.parse of a text that is well formed: the value of a node of its tree
RECURSIVE JsonValue(_)
JsonValue(node) ==
  CASE Has(node, "number") -> ParseFloat(node.number)
    [] Has(node, "boolean") -> node.boolean
    [] Has(node, "string") -> node.string
    [] Has(node, "object") -> [k \in DOMAIN node.object |-> JsonValue(node.object[k])]
    [] Has(node, "array") -> [i \in 1..Len(node.array) |-> JsonValue(node.array[i])]
    [] OTHER -> Null

\* the value of a node is truthy
JsonTruthy(node) ==
  CASE Has(node, "number") -> ParseFloat(node.number) \notin {0, NaN}
    [] Has(node, "boolean") -> node.boolean
    [] Has(node, "string") -> node.string # ""
    [] Has(node, "object") \/ Has(node, "array") -> TRUE
    [] OTHER -> FALSE

\* The Settings component's fallback and handleReset's defaultSettings
DialogDefaults ==
  [basePriceModifier |-> 115,
   conditionMultipliers |-> [NM |-> 100, EX |-> 90, VG |-> 75, G |-> 50],
   buyCashMultipliers |-> [NM |-> 85, EX |-> 77, VG |-> 60, G |-> 30],
   creditMultiplier |-> 130,
   bulkThreshold |-> 300,
   highEndThreshold |-> 20000,
   pricingTiers |-> << [name |-> "Very Low", lowerBound |-> 300, multiplier |-> 8],
                       [name |-> "Low", lowerBound |-> 400, multiplier |-> 25],
                       [name |-> "Mid", lowerBound |-> 1200, multiplier |-> 40],
                       [name |-> "Mid-High", lowerBound |-> 2500, multiplier |-> 45],
                       [name |-> "High", lowerBound |-> 5000, multiplier |-> 50] >>,
   darkMode |-> FALSE]

\* mutant: the stored configuration is read but the defaults are kept
LoadSettingsKeepsDefaults(savedSettings) == ParentDefaults

\* loadSettings: the settings in effect after the mount effect, given
\* localStorage.getItem('mtgPricerSettings').  A text that JSON.parse rejects
\* and a text that parses to null end in the catch block.
LoadSettings(savedSettings) ==
  IF ~Truthy(savedSettings) THEN ParentDefaults
  ELSE IF ~Has(savedSettings, "json") THEN ParentDefaults
  ELSE IF ~Has(savedSettings.json, "object") THEN ParentDefaults
  ELSE LET fields == savedSettings.json.object
           parsedSettings == JsonValue(savedSettings.json)
       IN IF /\ Has(fields, "conditionMultipliers")
             /\ JsonTruthy(fields.conditionMultipliers)
             /\ Has(fields, "buyCashMultipliers")
             /\ JsonTruthy(fields.buyCashMultipliers)
             /\ Has(fields, "creditMultiplier")
             /\ Has(fields.creditMultiplier, "number")
          THEN Put(parsedSettings, "darkMode",
                   IF Has(fields, "darkMode") /\ Has(fields.darkMode, "boolean")
                   THEN parsedSettings.darkMode ELSE FALSE)
          ELSE ParentDefaults

\* validateInput(value, min, max), with min and max in hundredths
ValidateInput(value, min, max) ==
  LET num == ParseFloat(value) IN num # NaN /\ num >= min /\ num <= max

\* The keys of the dialog's errors object
ConditionErrorKey(condition) == "condition_" \o condition
BuyCashErrorKey(condition) == "buyCash_" \o condition
TierErrorKey(index, field) == "tier_" \o Digits[index] \o "_" \o field
TierFields == {"lowerBound", "multiplier"}
ErrorKeys ==
  {ConditionErrorKey(Conditions[i]) : i \in 1..Len(Conditions)} \cup
  {BuyCashErrorKey(Conditions[i]) : i \in 1..Len(Conditions)} \cup
  {TierErrorKey(index, field) : index \in 1..Len(DialogDefaults.pricingTiers),
                                field \in TierFields} \cup
  NumberKeys

\* useState({}): a key the errors object lacks reads as undefined
NoErrors == [k \in ErrorKeys |-> Undefined]

\* Object.values(errors).some(error => error !== null)
HasErrors(errors) == \E k \in ErrorKeys : errors[k] \notin {Undefined, Null}

\* the Settings button: the dialog mounts with useState(currentSettings), its
\* settings being the parent's object; history: opened keeps the parent's
\* settings and the store as they were when the dialog was opened
OpenSettings ==
  /\ ~showSettings
  /\ showSettings' = TRUE
  /\ dialog' = [settings |-> settings, errors |-> NoErrors, shared |-> TRUE,
                opened |-> [settings |-> settings, store |-> store]]
  /\ ev' = Event("openSettings", "", "")
  /\ UNCHANGED <<searchTerm, selVars, loading, searches, error, acVars, pricing,
                 pricingFetches, pricingDeps, settings, store, edits>>

\* A change handler of a field that holds one number
NumberFieldChange(key, value, min, max, message) ==
  /\ showSettings
  /\ dialog' = IF ValidateInput(value, min, max)
               THEN [dialog EXCEPT !.settings = Put(@, key, ParseFloat(value)),
                                   !.errors[key] = Null]
               ELSE [dialog EXCEPT !.errors[key] = Message(message)]
  /\ edits' = edits + 1
  /\ ev' = Event("edit", value, key)
  /\ UNCHANGED <<searchTerm, selVars, loading, searches, error, acVars, pricing,
                 pricingFetches, pricingDeps, settings, showSettings, store>>

\* A change handler of an entry of a table of multipliers
TableFieldChange(table, condition, key, value, max, message) ==
  /\ showSettings
  /\ dialog' = IF ValidateInput(value, 0, max)
               THEN [dialog EXCEPT
                       !.settings = Put(@, table, Put(@[table], condition,
                                                      ParseFloat(value))),
                       !.errors[key] = Null]
               ELSE [dialog EXCEPT !.errors[key] = Message(message)]
  /\ edits' = edits + 1
  /\ ev' = Event("edit", value, key)
  /\ UNCHANGED <<searchTerm, selVars, loading, searches, error, acVars, pricing,
                 pricingFetches, pricingDeps, settings, showSettings, store>>

HandleConditionMultiplierChange(condition, value) ==
  TableFieldChange("conditionMultipliers", condition, ConditionErrorKey(condition),
                   value, 200, "Value must be between 0 and 2")

HandleBuyCashMultiplierChange(condition, value) ==
  TableFieldChange("buyCashMultipliers", condition, BuyCashErrorKey(condition),
                   value, 100, "Value must be between 0 and 1")

HandleCreditMultiplierChange(value) ==
  NumberFieldChange("creditMultiplier", value, 50, 300, "Value must be between 0.5 and 3")

HandleBasePriceModifierChange(value) ==
  NumberFieldChange("basePriceModifier", value, 50, 300, "Value must be between 0.5 and 3")

HandleBulkThresholdChange(value) ==
  NumberFieldChange("bulkThreshold", value, 1, 5000, "Value must be between 0.01 and 50")

HandleHighEndThresholdChange(value) ==
  NumberFieldChange("highEndThreshold", value, 5000, 1000000,
                    "Value must be between 50 and 10000")

\* handlePricingTierChange, from the tiers tab, which renders only when the
\* settings have tiers.  newTiers is a copy of the array, not of the tiers:
\* the assignment writes into the tier object, which is the parent's while
\* the dialog's settings descend from currentSettings.
HandlePricingTierChange(index, field, value) ==
  /\ showSettings
  /\ Has(dialog.settings, "pricingTiers")
  /\ index \in 1..Len(dialog.settings.pricingTiers)
  /\ LET key == TierErrorKey(index, field)
         max == IF field = "lowerBound" THEN 100000 ELSE 100
         message == IF field = "lowerBound" THEN "Value must be between 0.01 and 1000"
                    ELSE "Value must be between 0.01 and 1"
     IN IF ValidateInput(value, 1, max)
        THEN /\ dialog' = [dialog EXCEPT
                             !.settings.pricingTiers[index][field] = ParseFloat(value),
                             !.errors[key] = Null]
             /\ settings' = IF dialog.shared
                            THEN [settings EXCEPT
                                    !.pricingTiers[index][field] = ParseFloat(value)]
                            ELSE settings
        ELSE /\ dialog' = [dialog EXCEPT !.errors[key] = Message(message)]
             /\ UNCHANGED settings
  /\ edits' = edits + 1
  /\ ev' = Event("edit", value, TierErrorKey(index, field))
  /\ UNCHANGED <<searchTerm, selVars, loading, searches, error, acVars, pricing,
                 pricingFetches, pricingDeps, showSettings, store>>

\* mutant: Save does not look at the errors
HandleSaveIgnoresErrors(stored) ==
  /\ showSettings
  /\ store' = IF stored THEN JsonStringify(dialog.settings) ELSE store
  /\ settings' = dialog.settings
  /\ showSettings' = FALSE
  /\ dialog' = Null
  /\ ev' = Event("save", "", IF stored THEN "stored" ELSE "notStored")
  /\ UNCHANGED <<searchTerm, selVars, loading, searches, error, acVars, pricing,
                 pricingFetches, pricingDeps, edits>>

\* handleSave, and the parent's onSave; stored: localStorage.setItem did not
\* throw
HandleSave(stored) ==
  /\ showSettings
  /\ IF HasErrors(dialog.errors)
     THEN /\ ev' = Event("save", "", "blocked")
          /\ UNCHANGED <<settings, showSettings, dialog, store>>
     ELSE /\ store' = IF stored THEN JsonStringify(dialog.settings) ELSE store
          /\ settings' = dialog.settings
          /\ showSettings' = FALSE
          /\ dialog' = Null
          /\ ev' = Event("save", "", IF stored THEN "stored" ELSE "notStored")
  /\ UNCHANGED <<searchTerm, selVars, loading, searches, error, acVars, pricing,
                 pricingFetches, pricingDeps, edits>>

\* handleReset
HandleReset ==
  /\ showSettings
  /\ dialog' = [settings |-> DialogDefaults, errors |-> NoErrors, shared |-> FALSE,
                opened |-> dialog.opened]
  /\ ev' = Event("reset", "", "")
  /\ UNCHANGED <<searchTerm, selVars, loading, searches, error, acVars, pricing,
                 pricingFetches, pricingDeps, settings, showSettings, store, edits>>

\* onClose: the Cancel button and the close icon
OnClose ==
  /\ showSettings
  /\ showSettings' = FALSE
  /\ dialog' = Null
  /\ ev' = Event("close", "", "")
  /\ UNCHANGED <<searchTerm, selVars, loading, searches, error, acVars, pricing,
                 pricingFetches, pricingDeps, settings, store, edits>>

\* The page is loaded again: every state is constructed anew and the mount
\* effects run, loadSettings reading the store.
Reload ==
  /\ searchTerm' = ""
  /\ searchResults' = <<>>
  /\ uniqueSets' = <<>>
  /\ selectedSet' = Null
  /\ availableCollectorNumbers' = <<>>
  /\ selectedCollectorNumber' = <<>>
  /\ selectedCardVersion' = Null
  /\ selectedLanguage' = "en"
  /\ selectedFinish' = "nonfoil"
  /\ availableLanguages' = <<>>
  /\ availableFinishes' = <<>>
  /\ loading' = FALSE
  /\ searches' = <<>>
  /\ error' = ""
  /\ suggestions' = <<>>
  /\ autocompleteLoading' = FALSE
  /\ cache' = <<>>
  /\ lruOrder' = <<>>
  /\ debounceTimeoutRef' = 0
  /\ timers' = {}
  /\ inflight' = <<>>
  /\ pricing' = InitialPricing
  /\ pricingFetches' = <<>>
  /\ pricingDeps' = PricingDependencies(Null, <<>>, "nonfoil", Null)
  /\ settings' = LoadSettings(store)
  /\ showSettings' = FALSE
  /\ dialog' = Null
  /\ ev' = Event("reload", "", "")
  /\ UNCHANGED <<store, edits>>

\* A stored text that handleSave did not write: one that JSON.parse rejects
\* and an object that lacks a table; and texts it wrote: the dialog's defaults
\* and the parent's.
NotJson == [garbage |-> "{"]
WithoutKey(text, key) ==
  [json |-> [object |-> [k \in DOMAIN text.json.object \ {key} |-> text.json.object[k]]]]

SettingsStores ==
  {Null, NotJson,
   JsonStringify(DialogDefaults),
   JsonStringify(ParentDefaults),
   WithoutKey(JsonStringify(DialogDefaults), "conditionMultipliers")}

\* What the user types into a number field of the dialog
SettingsInputs == {<<>>, <<"0", ".", "8">>, <<"1", "5", "0">>}
EditedConditions == {"EX"}
EditedTiers == {5}

MaxEdits == 2       \* edits of dialog fields in one behaviour

InitSettings ==
  /\ searchTerm = ""
  /\ searchResults = <<>>
  /\ uniqueSets = <<>>
  /\ selectedSet = Null
  /\ availableCollectorNumbers = <<>>
  /\ selectedCollectorNumber = <<>>
  /\ selectedCardVersion = Null
  /\ selectedLanguage = "en"
  /\ selectedFinish = "nonfoil"
  /\ availableLanguages = <<>>
  /\ availableFinishes = <<>>
  /\ loading = FALSE
  /\ searches = <<>>
  /\ error = ""
  /\ suggestions = <<>>
  /\ autocompleteLoading = FALSE
  /\ cache = <<>>
  /\ lruOrder = <<>>
  /\ debounceTimeoutRef = 0
  /\ timers = {}
  /\ inflight = <<>>
  /\ pricing = InitialPricing
  /\ pricingFetches = <<>>
  /\ pricingDeps = PricingDependencies(Null, <<>>, "nonfoil", Null)
  /\ store \in SettingsStores
  /\ settings = LoadSettings(store)
  /\ showSettings = FALSE
  /\ dialog = Null
  /\ edits = 0
  /\ ev = Event("init", "", "")

NextSettings ==
  \/ OpenSettings
  \/ edits < MaxEdits /\ \E condition \in EditedConditions, value \in SettingsInputs :
       HandleConditionMultiplierChange(condition, value)
  \/ edits < MaxEdits /\ \E condition \in EditedConditions, value \in SettingsInputs :
       HandleBuyCashMultiplierChange(condition, value)
  \/ edits < MaxEdits /\ \E value \in SettingsInputs : HandleCreditMultiplierChange(value)
  \/ edits < MaxEdits /\ \E value \in SettingsInputs : HandleBasePriceModifierChange(value)
  \/ edits < MaxEdits /\ \E value \in SettingsInputs : HandleBulkThresholdChange(value)
  \/ edits < MaxEdits /\ \E value \in SettingsInputs : HandleHighEndThresholdChange(value)
  \/ edits < MaxEdits /\ \E index \in EditedTiers, field \in TierFields,
                            value \in SettingsInputs :
       HandlePricingTierChange(index, field, value)
  \/ \E stored \in BOOLEAN : HandleSave(stored)
  \/ HandleReset
  \/ OnClose
  \/ Reload

SpecSettings == InitSettings /\ [][NextSettings]_vars

----------------------------------------------------------------------------
(* Pricing engine and pricing lookup (src/unnamed/part_001).  A price is    *)
(* the exact value num / den in lowest terms; the products the code forms   *)
(* are far enough from each other that their floating-point values round    *)
(* to the same cents, except a value halfway between two cents.             *)

RECURSIVE Gcd(_, _)
Gcd(a, b) == IF b = 0 THEN a ELSE Gcd(b, a % b)

Amount(num, den) == [num |-> num \div Gcd(num, den), den |-> den \div Gcd(num, den)]

\* price * multiplier, the multiplier in hundredths
Times(price, multiplier) == Amount(price.num * multiplier, price.den * 100)

\* x.toFixed(2), in cents: the nearest number of cents; of a value halfway
\* between two, the stored binary fraction lies on either side
ToFixed2(x) ==
  LET cents == (x.num * 100) \div x.den
      rest == (x.num * 100) % x.den
  IN IF 2 * rest < x.den THEN {cents}
     ELSE IF 2 * rest > x.den THEN {cents + 1}
     ELSE {cents, cents + 1}

\* mutant: the credit price is taken from the condition price
CalculatePricingGridCreditFromPrice(tcgplayerBasePrice) ==
  IF ~Truthy(tcgplayerBasePrice) \/ tcgplayerBasePrice.num = 0 THEN Null
  ELSE [i \in 1..Len(Conditions) |->
          LET condition == Conditions[i]
              conditionPrice ==
                Times(tcgplayerBasePrice, settings.conditionMultipliers[condition])
              buyCash == Times(conditionPrice, settings.buyCashMultipliers[condition])
              buyCredit == Times(conditionPrice, settings.creditMultiplier)
          IN [condition |-> condition, price |-> conditionPrice,
              buyCash |-> buyCash, buyCredit |-> buyCredit]]

\* calculatePricingGrid
CalculatePricingGrid(tcgplayerBasePrice) ==
  IF ~Truthy(tcgplayerBasePrice) \/ tcgplayerBasePrice.num = 0 THEN Null
  ELSE [i \in 1..Len(Conditions) |->
          LET condition == Conditions[i]
              conditionPrice ==
                Times(tcgplayerBasePrice, settings.conditionMultipliers[condition])
              buyCash == Times(conditionPrice, settings.buyCashMultipliers[condition])
              buyCredit == Times(buyCash, settings.creditMultiplier)
          IN [condition |-> condition, price |-> conditionPrice,
              buyCash |-> buyCash, buyCredit |-> buyCredit]]

\* The grid's rows as rendered
HasData == pricing.lpMarketPrice # Null /\ ~pricing.loading /\ ~Truthy(pricing.error)
RowData(i) ==
  IF HasData /\ pricing.lpMarketPrice.num # 0
  THEN CalculatePricingGrid(pricing.lpMarketPrice)[i]
  ELSE Undefined

Spinner == [text |-> "CircularProgress"]
NotAvailable == [text |-> "N/A"]
Dash == [text |-> "-"]
Columns == {"price", "buyCash", "buyCredit"}

\* What a cell of row i can show
Cells(i, column) ==
  IF pricing.loading THEN {Spinner}
  ELSE IF Truthy(pricing.error) THEN {NotAvailable}
  ELSE IF Truthy(RowData(i)) THEN {[cents |-> n] : n \in ToFixed2(RowData(i)[column])}
  ELSE {Dash}

\* searchData.cards of the pricing lookup: two printings with a product, one
\* of them in two finishes, a printing with a link to no product and a
\* printing with no link
PricingCards ==
  << Card("Lightning Bolt", lea, "Alpha", <<"1">>, "en", <<"nonfoil", "foil">>),
     Card("Lightning Bolt", lea, "Alpha", <<"1">>, "ja", <<"nonfoil">>),
     Card("Lightning Bolt", lea, "Alpha", <<"2", "BLACK_STAR">>, "en", <<"foil">>),
     Card("Lightning Bolt", m10, "Magic 2010", <<"1", "0">>, "en", <<"etched">>) >>

\* card.purchase_uris?.tcgplayer of the records of PricingCards, in pieces: an
\* encoded partner link, a plain link, a link to no product, and no link
\* (the empty string)
TcgplayerUri(card) ==
  CASE card.set_code = lea /\ card.collector_number = <<"1">> /\ card.lang = "en" ->
         <<"https://partner.tcgplayer.com/c?u=", "https:", "%2F", "%2F",
           "www.tcgplayer.com", "%2F", "product", "%2F", "1001">>
    [] card.set_code = lea /\ card.collector_number = <<"1">> ->
         <<"https://www.tcgplayer.com", "/", "product", "/", "1002">>
    [] card.set_code = lea -> <<"https://www.tcgplayer.com", "/", "search">>
    [] OTHER -> <<>>

\* the pieces that \d+ matches
Numerals == {"1001", "1002"}

DecodeURIComponent(uri) == [i \in 1..Len(uri) |-> IF uri[i] = "%2F" THEN "/" ELSE uri[i]]

ProductId(text) == [id |-> text]

\* extractTCGPlayerProductId
ExtractTCGPlayerProductId(tcgplayerUri) ==
  IF tcgplayerUri = <<>> THEN Null
  ELSE LET decodedUri == DecodeURIComponent(tcgplayerUri)
           match == {i \in 1..(Len(decodedUri) - 2) :
                       /\ decodedUri[i] = "product"
                       /\ decodedUri[i + 1] = "/"
                       /\ decodedUri[i + 2] \in Numerals}
       IN IF match = {} THEN Null
          ELSE ProductId(decodedUri[(CHOOSE i \in match : \A j \in match : i <= j) + 2])

\* getTCGPlayerCondition
GetTCGPlayerCondition(finish) == IF finish = "foil" THEN "Foil" ELSE "Normal"

MaxPricingInFlight == 2     \* pricing requests awaiting a response at one time

\* The pricing effect runs after a render in which a dependency changed
EffectDue ==
  pricingDeps # PricingDependencies(selectedSet, selectedCollectorNumber,
                                    selectedFinish, selectedCardVersion)

\* fetchTCGPlayerPricing(cardVersion, finish), up to its await
FetchTCGPlayerPricing(cardVersion, finish) ==
  LET uri == TcgplayerUri(cardVersion)
      productId == ExtractTCGPlayerProductId(uri)
  IN IF uri = <<>>
     THEN /\ pricing' = [lpMarketPrice |-> Null, loading |-> FALSE,
                         error |-> Message("No TCGPlayer link available"),
                         productId |-> Null]
          /\ ev' = Event("pricing", "", "noLink")
          /\ UNCHANGED pricingFetches
     ELSE IF ~Truthy(productId)
     THEN /\ pricing' = [lpMarketPrice |-> Null, loading |-> FALSE,
                         error |-> Message("Could not extract product ID"),
                         productId |-> Null]
          /\ ev' = Event("pricing", "", "noProductId")
          /\ UNCHANGED pricingFetches
     ELSE /\ Len(pricingFetches) < MaxPricingInFlight
          /\ pricing' = [pricing EXCEPT !.loading = TRUE, !.error = Null]
          /\ ev' = Event("pricing", "", "request")
          /\ pricingFetches' = Append(pricingFetches,
                                      [productId |-> productId, finish |-> finish])

\* useEffect(..., [selectedSet, selectedCollectorNumber, selectedFinish,
\* selectedCardVersion, fetchTCGPlayerPricing])
PricingEffect ==
  /\ EffectDue
  /\ pricingDeps' = PricingDependencies(selectedSet, selectedCollectorNumber,
                                        selectedFinish, selectedCardVersion)
  /\ IF /\ Truthy(selectedSet)
        /\ selectedCollectorNumber # <<>>
        /\ selectedFinish # ""
        /\ Truthy(selectedCardVersion)
     THEN FetchTCGPlayerPricing(selectedCardVersion, selectedFinish)
     ELSE /\ pricing' = InitialPricing
          /\ ev' = Event("pricing", "", "cleared")
          /\ UNCHANGED pricingFetches
  /\ UNCHANGED <<searchTerm, selVars, loading, searches, error, acVars, settings,
                 showSettings, dialog, store, edits>>

\* data.pricing.results of a response: a Normal and a Foil price, a Normal
\* price only, and a Normal entry without a market price
PricingResults ==
  { << [subTypeName |-> "Normal", marketPrice |-> Amount(100, 1)],
       [subTypeName |-> "Foil", marketPrice |-> Amount(250, 1)] >>,
    << [subTypeName |-> "Normal", marketPrice |-> Amount(4, 1)] >>,
    << [subTypeName |-> "Normal", marketPrice |-> Null] >> }

\* error.message of what the try block throws: a response that is not ok, and
\* a fetch that was rejected
PricingErrors == {"HTTP 500", "Failed to fetch"}

\* fetchTCGPlayerPricing after its awaits, the response being ok
PricingOk(i, results) ==
  LET request == pricingFetches[i]
      targetCondition == GetTCGPlayerCondition(request.finish)
      condition == SelectSeq(results, LAMBDA r : r.subTypeName = targetCondition)
      marketPrice == IF condition = <<>> THEN Undefined ELSE condition[1].marketPrice
      lpPrice == IF Truthy(marketPrice) /\ marketPrice.num # 0 THEN marketPrice ELSE Null
  IN /\ pricingFetches' = RemoveAt(pricingFetches, i)
     /\ pricing' = [lpMarketPrice |-> lpPrice, loading |-> FALSE,
                    error |-> IF lpPrice = Null
                              THEN Message("Market pricing not available") ELSE Null,
                    productId |-> request.productId]
     /\ ev' = Event("pricing", "", IF lpPrice = Null THEN "noMarketPrice" ELSE "priced")
     /\ UNCHANGED <<searchTerm, selVars, loading, searches, error, acVars, pricingDeps,
                    settings, showSettings, dialog, store, edits>>

\* mutant: the catch block keeps the price it finds
PricingFailKeepsPrice(i, message) ==
  /\ pricingFetches' = RemoveAt(pricingFetches, i)
  /\ pricing' = [pricing EXCEPT !.loading = FALSE, !.error = Message(message),
                                !.productId = pricingFetches[i].productId]
  /\ ev' = Event("pricing", "", "failed")
  /\ UNCHANGED <<searchTerm, selVars, loading, searches, error, acVars, pricingDeps,
                 settings, showSettings, dialog, store, edits>>

\* fetchTCGPlayerPricing after its awaits, in its catch block
PricingFail(i, message) ==
  /\ pricingFetches' = RemoveAt(pricingFetches, i)
  /\ pricing' = [lpMarketPrice |-> Null, loading |-> FALSE, error |-> Message(message),
                 productId |-> pricingFetches[i].productId]
  /\ ev' = Event("pricing", "", "failed")
  /\ UNCHANGED <<searchTerm, selVars, loading, searches, error, acVars, pricingDeps,
                 settings, showSettings, dialog, store, edits>>

\* The settings a page can find stored: none, or the defaults the dialog
\* saved after Reset
PricingStores == {Null, JsonStringify(DialogDefaults)}

\* The page after a search that returned PricingCards
InitPricing ==
  /\ searchTerm = "Lightning Bolt"
  /\ searchResults = PricingCards
  /\ uniqueSets = ProcessSearchResults(PricingCards)
  /\ selectedSet = Null
  /\ availableCollectorNumbers = <<>>
  /\ selectedCollectorNumber = <<>>
  /\ selectedCardVersion = Null
  /\ selectedLanguage = "en"
  /\ selectedFinish = "nonfoil"
  /\ availableLanguages = <<>>
  /\ availableFinishes = <<>>
  /\ loading = FALSE
  /\ searches = <<>>
  /\ error = ""
  /\ suggestions = <<>>
  /\ autocompleteLoading = FALSE
  /\ cache = <<>>
  /\ lruOrder = <<>>
  /\ debounceTimeoutRef = 0
  /\ timers = {}
  /\ inflight = <<>>
  /\ pricing = InitialPricing
  /\ pricingFetches = <<>>
  /\ pricingDeps = PricingDependencies(Null, <<>>, "nonfoil", Null)
  /\ store \in PricingStores
  /\ settings = LoadSettings(store)
  /\ showSettings = FALSE
  /\ dialog = Null
  /\ edits = 0
  /\ ev = Event("init", "", "")

\* The effect of a render runs before the next event is handled; the menus
\* offer the groups, numbers, languages and finishes that are available.
NextPricing ==
  \/ PricingEffect
  \/ ~EffectDue /\ \E i \in 1..Len(uniqueSets) : HandleSetSelect(uniqueSets[i].code)
  \/ ~EffectDue /\ \E i \in 1..Len(availableCollectorNumbers) :
                      HandleCollectorNumberSelect(availableCollectorNumbers[i])
  \/ ~EffectDue /\ \E i \in 1..Len(availableLanguages) : SetLanguage(availableLanguages[i])
  \/ ~EffectDue /\ \E i \in 1..Len(availableFinishes) : SetFinish(availableFinishes[i])
  \/ ~EffectDue /\ HandleClear
  \/ ~EffectDue /\ \E i \in 1..Len(pricingFetches), results \in PricingResults :
                      PricingOk(i, results)
  \/ ~EffectDue /\ \E i \in 1..Len(pricingFetches), message \in PricingErrors :
                      PricingFail(i, message)

SpecPricing == InitPricing /\ [][NextPricing]_vars

----------------------------------------------------------------------------
(* Properties of the variant selector, under SpecSelector *)

\* C1: after any sequence of chooseSet, chooseCollectorNumber, setLanguage and
\* setFinish with any arguments, a collector number is never selected while no
\* set is selected, and a resolved variant never exists while the collector
\* number is empty.
C1_PrerequisitesHold ==
  /\ selectedCollectorNumber # <<>> => Truthy(selectedSet)
  /\ Truthy(selectedCardVersion) => selectedCollectorNumber # <<>>

\* getCurrentCardVariant() as the next render computes it
CurrentVariantView ==
  GetCurrentCardVariant(searchResults, selectedSet, selectedCollectorNumber,
                        selectedLanguage, selectedFinish, selectedCardVersion)

\* C2: after setLanguage or setFinish with a set and a collector number
\* selected, the stored resolved variant is the record matching the set, the
\* collector number and the new language and finish whenever there is one (the
\* previous variant is kept only when there is none), so that the stored
\* variant and the recomputed view never diverge.
C2_StoredVariantIsView ==
  (/\ ev.op \in {"setLanguage", "setFinish"}
   /\ Truthy(selectedSet)
   /\ selectedCollectorNumber # <<>>)
  => selectedCardVersion = CurrentVariantView

\* the records of the selected set and collector number
SelectedGroup ==
  MatchingCards(searchResults, selectedSet.code, selectedCollectorNumber)

RECURSIVE FirstByPreference(_, _)
FirstByPreference(s, tests) ==
  IF tests = <<>> THEN s[1]
  ELSE LET found == SelectSeq(s, LAMBDA x : Head(tests)[x])
       IN IF found # <<>> THEN found[1] ELSE FirstByPreference(s, Tail(tests))

\* C15: the variant resolved for a group with default language L and default
\* finish F is the first record matching both, else the first matching L, else
\* the first matching F, else the first record of the group.
C15_FallbackOrder ==
  (/\ ev.op \in {"chooseSet", "chooseCollectorNumber"}
   /\ Truthy(selectedSet)
   /\ selectedCollectorNumber # <<>>
   /\ SelectedGroup # <<>>)
  => selectedCardVersion =
       FirstByPreference(SelectedGroup,
         << [card \in Range(SelectedGroup) |->
               card.lang = selectedLanguage /\ selectedFinish \in Range(card.finishes)],
            [card \in Range(SelectedGroup) |-> card.lang = selectedLanguage],
            [card \in Range(SelectedGroup) |-> selectedFinish \in Range(card.finishes)] >>)

\* the option lists and the resolved variant belong to the selected set and
\* collector number, and there are none when no set or no number is selected
SelectionConsistent ==
  IF Truthy(selectedSet) /\ selectedCollectorNumber # <<>>
  THEN /\ availableLanguages = CollectLanguages(<<>>, SelectedGroup)
       /\ availableFinishes = CollectFinishes(<<>>, SelectedGroup)
       /\ Truthy(selectedCardVersion) => selectedCardVersion \in Range(SelectedGroup)
  ELSE /\ selectedCollectorNumber = <<>>
       /\ ~Truthy(selectedCardVersion)
       /\ availableLanguages = <<>>
       /\ availableFinishes = <<>>

\* C16: chooseSet with a set code no group has, and chooseCollectorNumber with
\* a number no record of the selected set carries, either change nothing or end
\* with the collector number, the available languages and finishes and the
\* resolved variant all belonging to the selected set and collector number
\* (stated for operations that start from such a state).
C16_AbsentKeyIsHarmless ==
  [][(/\ SelectionConsistent
      /\ \/ ev'.op = "chooseSet" /\ ~Truthy(FindSet(uniqueSets, ev'.q))
         \/ /\ ev'.op = "chooseCollectorNumber"
            /\ Truthy(selectedSet)
            /\ MatchingCards(searchResults, selectedSet.code, ev'.q) = <<>>)
     => (selVars' = selVars \/ SelectionConsistent')]_vars

\* the language a record is listed under: its own, "en" when it carries none
LanguageOf(card) == IF card.lang = "" THEN "en" ELSE card.lang

\* the languages and the finishes of the records of the selected group
GroupLanguages == {LanguageOf(card) : card \in Range(SelectedGroup)}

GroupFinishes == UNION {Range(card.finishes) : card \in Range(SelectedGroup)}

\* a sequence lists every element of a set, each of them once
ListsOnce(s, set) ==
  /\ Range(s) = set
  /\ \A i, j \in DOMAIN s : s[i] = s[j] => i = j

\* the first finish met when the records of the group are read in order
FirstFinish ==
  LET carriers == SelectSeq(SelectedGroup, LAMBDA card : card.finishes # <<>>)
  IN carriers[1].finishes[1]

\* C31: when a (set, collector number) group is resolved, the available
\* languages and finishes are exactly the unions of the languages and the
\* finishes of the group's records, the language is "en" if available and
\* otherwise the first language discovered, the finish is "nonfoil" if
\* available and otherwise the first finish discovered.
C31_OptionsAreUnionsWithDefaults ==
  (/\ ev.op \in {"chooseSet", "chooseCollectorNumber"}
   /\ Truthy(selectedSet)
   /\ selectedCollectorNumber # <<>>
   /\ SelectedGroup # <<>>)
  => /\ ListsOnce(availableLanguages, GroupLanguages)
     /\ ListsOnce(availableFinishes, GroupFinishes)
     /\ selectedLanguage = IF "en" \in GroupLanguages THEN "en"
                           ELSE LanguageOf(SelectedGroup[1])
     /\ GroupFinishes # {} =>
          selectedFinish = IF "nonfoil" \in GroupFinishes THEN "nonfoil"
                           ELSE FirstFinish

\* C31's case: a group without "en" and without "nonfoil" was resolved by
\* choosing its collector number, and the first language and finish were taken.
C31_Witness ==
  /\ ev.op = "chooseCollectorNumber"
  /\ Truthy(selectedSet)
  /\ SelectedGroup # <<>>
  /\ "en" \notin GroupLanguages
  /\ "nonfoil" \notin GroupFinishes
  /\ GroupFinishes # {}
  /\ selectedLanguage = LanguageOf(SelectedGroup[1])
  /\ selectedFinish = FirstFinish

\* C31's other case: a group holding several languages and finishes, "en" and
\* "nonfoil" among them, was resolved by choosing its set.
C31_WitnessUnion ==
  /\ ev.op = "chooseSet"
  /\ Truthy(selectedSet)
  /\ SelectedGroup # <<>>
  /\ Len(availableLanguages) > 1
  /\ Len(availableFinishes) > 1
  /\ selectedLanguage = "en"
  /\ selectedFinish = "nonfoil"

\* C32: chooseCollectorNumber(n), with a set selected and n one of that set's
\* collector numbers, selects n, lists the languages and finishes of the records
\* of (selected set, n), sets the language and the finish to that group's
\* defaults whatever they were for the previous number, and resolves a record
\* of (selected set, n), the one chooseSet's default logic picks.
C32_ChooseNumberResolvesGroup ==
  (/\ ev.op = "chooseCollectorNumber"
   /\ Truthy(selectedSet)
   /\ ev.q \in Range(selectedSet.collectorNumbers))
  => /\ selectedCollectorNumber = ev.q
     /\ SelectedGroup # <<>>
     /\ ListsOnce(availableLanguages, GroupLanguages)
     /\ ListsOnce(availableFinishes, GroupFinishes)
     /\ selectedLanguage = DefaultLanguage(availableLanguages)
     /\ selectedFinish = DefaultFinish(availableFinishes)
     /\ selectedCardVersion \in Range(SelectedGroup)
     /\ selectedCardVersion = DefaultCard(SelectedGroup, selectedLanguage, selectedFinish)

\* C32's case: in a set with several collector numbers, a number whose group
\* has no "nonfoil" was chosen and the finish moved to that group's first.
C32_Witness ==
  /\ ev.op = "chooseCollectorNumber"
  /\ Truthy(selectedSet)
  /\ ev.q \in Range(selectedSet.collectorNumbers)
  /\ Len(selectedSet.collectorNumbers) > 1
  /\ "nonfoil" \notin GroupFinishes
  /\ selectedFinish = FirstFinish

\* C37: after a (set, collector number) group is resolved, every language
\* listed as available is the language of a record of the group under the
\* comparison the variant match uses (card.lang === language), and every
\* finish listed is among the finishes of a record of the group; so a record
\* without a language, listed as "en", is matched when "en" is selected.
C37_ListedOptionsAreCarried ==
  (/\ ev.op \in {"chooseSet", "chooseCollectorNumber"}
   /\ Truthy(selectedSet)
   /\ selectedCollectorNumber # <<>>
   /\ SelectedGroup # <<>>)
  => /\ \A language \in Range(availableLanguages) :
          \E card \in Range(SelectedGroup) : card.lang = language
     /\ \A finish \in Range(availableFinishes) :
          \E card \in Range(SelectedGroup) : finish \in Range(card.finishes)

----------------------------------------------------------------------------
(* Properties of the suggestion cache and scheduler, under SpecSuggest *)

\* C3: the response of a fetch that a later request has superseded (the later
\* request's list, of another query, has been displayed) never overwrites the
\* displayed suggestions.
C3_SupersededResponseDiscarded ==
  [][(ev'.op \in {"ok", "fail"} /\ ev'.stale) => suggestions' = suggestions]_vars

\* C4: in every reachable state the cache holds at most 50 entries.
C4_CacheBounded == Len(cache) <= maxCacheSize

\* C4's case: the cache is full and a successful fetch has just evicted an entry.
C4_Witness == Len(cache) = maxCacheSize /\ ev.op = "ok" /\ ev.x # ""

\* the key used least recently among those in the cache c, by the history l
LeastRecentlyUsed(c, l) ==
  LET keys == CacheKeys(c)
      inCache == SelectSeq(l, LAMBDA k : k \in keys)
  IN Head(inCache)

\* C5: when a fetch for a query that is not in the cache succeeds and the cache
\* is at capacity, exactly the entry least recently hit or put in is evicted;
\* below capacity nothing is evicted; in both cases every other entry stays
\* with its value and the new entry is in the cache with the fetched list.
C5_EvictsLeastRecentlyUsed ==
  [][(ev'.op = "ok" /\ ~CacheHas(cache, ev'.q)) =>
       LET kept == IF Len(cache) >= maxCacheSize
                   THEN CacheDelete(cache, LeastRecentlyUsed(cache, lruOrder))
                   ELSE cache
       IN /\ Len(kept) >= Len(cache) - 1
          /\ CacheDelete(cache', ev'.q) = kept
          /\ Len(cache') = Len(kept) + 1
          /\ CacheGet(cache', ev'.q) = Suggest(ev'.q)]_vars

\* C5's case: a fetch into the full warm cache evicted the first filler entry
\* and not "abc", the entry put in before it, which has been used since.
C5_Witness ==
  /\ ev.op = "ok"
  /\ ev.x = FillerKey(1)
  /\ CacheHas(cache, "abc")
  /\ Len(cache) = maxCacheSize

\* C6: on a cache hit for the exact query string the entry becomes the most
\* recently used one with its value, every other entry keeps its value and
\* place, the cached value becomes the displayed suggestions and no fetch is
\* issued; a query fires a fetch only when no entry has exactly that key.
C6_HitPromotesEntry ==
  [][/\ ev'.op = "hit" =>
          /\ CacheHas(cache, ev'.q)
          /\ Last(cache') = Entry(ev'.q, CacheGet(cache, ev'.q))
          /\ CacheDelete(cache', ev'.q) = CacheDelete(cache, ev'.q)
          /\ suggestions' = CacheGet(cache, ev'.q)
          /\ Len(inflight') = Len(inflight)
          /\ autocompleteLoading' = autocompleteLoading
     /\ ev'.op = "fetch" => ~CacheHas(cache, ev'.q)]_vars

\* C6's case: "abc" was hit while "abC" is cached too, and moved behind it.
C6_Witness ==
  /\ ev.op = "hit"
  /\ ev.q = "abc"
  /\ CacheHas(cache, "abC")
  /\ Last(cache).key = "abc"
  /\ suggestions = Suggest("abc")

\* C7: at most one debounce timer is pending, and a scheduled call that
\* reaches the cache or the network is for the last query given to
\* requestSuggestions.
C7_OneFetchForLastQuery ==
  /\ Cardinality(timers) <= 1
  /\ ev.op \in {"hit", "fetch"} => ev.q = searchTerm

\* C8: an input shorter than 3 characters at once empties the suggestions and
\* leaves no timer pending for an earlier, longer query.
C8_ShortInputClearsAndCancels ==
  (ev.op = "input" /\ Len(ev.q) < 3) =>
    /\ suggestions = <<>>
    /\ \A t \in timers : Len(t.query) < 3

\* the cache holds only keys of at least 3 characters, each with the list a
\* successful fetch of exactly that key returns, and no fetch is in flight for
\* a shorter query
OnlyLongQueriesReachCacheOrNetwork ==
  /\ \A i \in 1..Len(cache) :
       Len(cache[i].key) >= 3 /\ cache[i].value = Suggest(cache[i].key)
  /\ \A i \in 1..Len(inflight) : Len(inflight[i].query) >= 3

C10_FailureIsSoft ==
  [][/\ ev'.op = "fail" =>
          /\ suggestions' = <<>>
          /\ cache' = cache
          /\ lruOrder' = lruOrder
          /\ error' = error
     /\ \A t \in timers \ timers' :
          (/\ ev'.op \in {"short", "hit", "fetch"}
           /\ Len(t.query) >= 3
           /\ ~CacheHas(cache, t.query))
          => /\ ev'.op = "fetch"
             /\ inflight' = Append(inflight, [query |-> t.query, superseded |-> FALSE])]_vars

\* C10's case: the fetch of "abc" failed with other queries cached, and "abc"
\* is not in the cache.
C10_Witness == ev.op = "fail" /\ ev.q = "abc" /\ cache # <<>> /\ ~CacheHas(cache, "abc")

\* C11: at no time are two autocomplete fetches for the same query string in
\* flight.
C11_OneFetchPerQuery ==
  \A i, j \in 1..Len(inflight) : inflight[i].query = inflight[j].query => i = j

\* C13: if the user stops typing with a final query of at least 3 characters,
\* then, timers firing and fetches settling, the displayed suggestions
\* eventually become and stay the list of that query, or the empty list (its
\* fetch failed).  Under SpecSuggestFair.
C13_FinalQueryWins ==
  \A q \in {r \in Queries : Len(r) >= minQueryLength} :
    <>[](searchTerm = q) => <>[](suggestions \in {Suggest(q), <<>>})

\* C34: after handleClear the suggestion list stays empty and the cache is not
\* modified until the next input change, even when a debounce timer was
\* pending or an autocomplete fetch was in flight when Clear was pressed;
\* stated for the step that follows handleClear.
C34_ClearSilencesAutocomplete ==
  [][(ev.op = "clear" /\ ev'.op # "input")
     => (suggestions' = <<>> /\ cache' = cache)]_vars

\* C35: the completion of a successful autocomplete fetch never reduces the
\* number of cached entries, and it evicts an entry only when the completed
\* query is absent from the cache and the cache already holds maxCacheSize
\* entries; so the second of two completions for one query evicts nothing.
C35_CompletionEvictsOnlyWhenFull ==
  [][ev'.op = "ok"
     => /\ Len(cache') >= Len(cache)
        /\ CacheKeys(cache) \subseteq CacheKeys(cache')
           \/ (~CacheHas(cache, ev'.q) /\ Len(cache) = maxCacheSize)]_vars

\* C36: autocompleteLoading is true in every state in which at least one
\* autocomplete fetch is in flight and false in every state in which none is,
\* also when fetches for different queries overlap and complete in any order.
C36_LoadingTracksFetches ==
  autocompleteLoading = (inflight # <<>>)

----------------------------------------------------------------------------
(* Properties of the search form, under SpecSearch *)

\* C12: starting a search (form submit, or selecting a suggestion) cancels the
\* pending debounce timer, so that no autocomplete fetch scheduled before the
\* search fires after it.
C12_SearchCancelsTimer == ev.op \in {"search", "select"} => timers = {}

\* the selection path is empty and so are the lists of options derived for it
SelectionEmpty ==
  /\ ~Truthy(selectedSet)
  /\ selectedCollectorNumber = <<>>
  /\ selectedCardVersion = Null
  /\ availableCollectorNumbers = <<>>
  /\ availableLanguages = <<>>
  /\ availableFinishes = <<>>

\* C17: handleClear, from any reachable state, leaves no set, no collector
\* number and no resolved variant, the language and the finish at their
\* defaults, the available collector numbers, languages and finishes empty,
\* and the search results, the set groups, the error and the suggestions empty.
C17_ClearReturnsToIdle ==
  ev.op = "clear" =>
    /\ SelectionEmpty
    /\ selectedLanguage = "en"
    /\ selectedFinish = "nonfoil"
    /\ searchResults = <<>>
    /\ uniqueSets = <<>>
    /\ error = ""
    /\ suggestions = <<>>

\* C17's case: Clear ran while a set was selected.
C17_Witness == ev.op = "clear" /\ ev.x = "selection"

\* C18: when a search completes, whatever its outcome, no set and no collector
\* number are selected, no variant is resolved and the available collector
\* numbers, languages and finishes are empty.
C18_SearchResetsSelection ==
  ev.op \in {"searchOk", "searchFail"} => SelectionEmpty

\* C29: a failed search ends with a non-empty error, empty search results and
\* no resolved variant, and loading is false once a search has completed;
\* starting a search clears the previous error; a blank search term starts no
\* search and changes no state.
C29_FailedSearchIsVisible ==
  /\ [](/\ ev.op = "searchFail" =>
              error # "" /\ searchResults = <<>> /\ selectedCardVersion = Null
        /\ ev.op \in {"searchOk", "searchFail"} => ~loading
        /\ ev.op \in {"search", "select"} => error = "" /\ loading)
  /\ [][ev'.op = "noSearch" =>
          UNCHANGED <<searchTerm, selVars, loading, searches, error, acVars, shopVars>>]_vars

\* C29's case: a search failed on a page that showed the results of an
\* earlier search, and a blank term was submitted once.
C29_Witness == ev.op = "searchFail" /\ uniqueSets # <<>>

C29_WitnessBlank == ev.op = "noSearch" /\ Blank(searchTerm)

----------------------------------------------------------------------------
(* Properties of the printing index, under SpecIndex *)

\* C19: grouping drops no record: there is exactly one group per distinct set
\* code of the input, the absent code being the empty string, and every
\* record is in the cards of exactly one group, the one whose code is the
\* record's set code.
C19_GroupDropsNoRecord ==
  /\ {uniqueSets[i].code : i \in 1..Len(uniqueSets)} =
       {CardSetCode(card) : card \in Range(searchResults)}
  /\ \A i, j \in 1..Len(uniqueSets) : uniqueSets[i].code = uniqueSets[j].code => i = j
  /\ \A i \in 1..Len(uniqueSets) :
       /\ Range(uniqueSets[i].cards) =
            {card \in Range(searchResults) : CardSetCode(card) = uniqueSets[i].code}
       /\ Len(uniqueSets[i].cards) = Cardinality(Range(uniqueSets[i].cards))

\* C19's case: a search returned records of the sets lea and LEA and a record
\* without set code, and the index has three groups, one of them for "".
C19_Witness ==
  /\ ev.op = "searchOk"
  /\ Len(searchResults) = 4
  /\ Len(uniqueSets) = 3
  /\ \E i \in 1..Len(uniqueSets) : uniqueSets[i].code = <<>> /\ Len(uniqueSets[i].cards) = 1

\* the codes and names of the groups, in order
GroupHeads(groups) == [i \in 1..Len(groups) |-> <<groups[i].code, groups[i].name>>]

\* C20: every ordering of the same records gives the same sequence of groups
\* (codes and names in the same order) and the same collector-number ordering
\* within each group.
C20_OrderIndependent ==
  \A cards \in Orderings(searchResults) :
    LET groups == ProcessSearchResults(cards) IN
    /\ GroupHeads(groups) = GroupHeads(uniqueSets)
    /\ \A i \in 1..Len(groups) :
         SortedCollectorNumbers(groups[i].collectorNumbers) =
         SortedCollectorNumbers(FindSet(uniqueSets, groups[i].code).collectorNumbers)

\* every value parses as an integer, as parseInt parses
AllParse(numbers) == \A n \in Range(numbers) : ParseInt(n) # NaN

\* the order of a group's collector numbers chosen once for the group:
\* numeric when every value parses, else lexicographic for the whole group
GroupOrder(numbers) ==
  StableSort(numbers,
    [pair \in Range(numbers) \X Range(numbers) |->
       IF AllParse(numbers) THEN ParseInt(pair[1]) - ParseInt(pair[2])
       ELSE LocaleCompare(pair[1], pair[2])])

\* C21: the collector numbers of a group are its distinct normalized values,
\* sorted numerically when every value of the group parses as an integer and
\* otherwise, the whole group, by lexicographic comparison.
C21_OrderChosenPerGroup ==
  (ev.op = "chooseSet" /\ Truthy(selectedSet)) =>
    availableCollectorNumbers = GroupOrder(selectedSet.collectorNumbers)

\* s without the glyphs, taken apart from the front
RECURSIVE WithoutGlyphs(_)
WithoutGlyphs(s) ==
  IF s = <<>> THEN <<>>
  ELSE IF Head(s) \in Glyphs THEN WithoutGlyphs(Tail(s))
  ELSE <<Head(s)>> \o WithoutGlyphs(Tail(s))

\* C22: the normalized collector number of a record is its collector number
\* without the glyphs and with everything else, normalizing it again changes
\* nothing, it is the key the record's group lists, and the record in the
\* group carries the original string.
C22_NormalizeRemovesGlyphsOnly ==
  \A card \in Range(searchResults) :
    LET number == CardCollectorNumber(card)
        group == FindSet(uniqueSets, CardSetCode(card))
    IN /\ number = WithoutGlyphs(card.collector_number)
       /\ NormalizeCollectorNumber(number) = number
       /\ number # <<>> => number \in Range(group.collectorNumbers)
       /\ \A n \in Range(group.collectorNumbers) : Range(n) \cap Glyphs = {}
       /\ \E c \in Range(group.cards) : c = card

\* C22's case: a record numbered with a white star before and after the 2 was
\* grouped under the number 2.
C22_Witness ==
  /\ ev.op = "searchOk"
  /\ \E card \in Range(searchResults) :
       /\ card.collector_number = <<"WHITE_STAR", "2", "WHITE_STAR">>
       /\ FindSet(uniqueSets, m10).collectorNumbers = << <<"2">> >>
       /\ card \in Range(FindSet(uniqueSets, m10).cards)
----------------------------------------------------------------------------
(* Properties of the settings, under SpecSettings *)

\* The documented range of the field an error key stands for, in hundredths,
\* and the text that describes it
FieldRange(key) ==
  CASE key \in {ConditionErrorKey(Conditions[i]) : i \in 1..Len(Conditions)} ->
         [min |-> 0, max |-> 200, text |-> "Value must be between 0 and 2"]
    [] key \in {BuyCashErrorKey(Conditions[i]) : i \in 1..Len(Conditions)} ->
         [min |-> 0, max |-> 100, text |-> "Value must be between 0 and 1"]
    [] key \in {"creditMultiplier", "basePriceModifier"} ->
         [min |-> 50, max |-> 300, text |-> "Value must be between 0.5 and 3"]
    [] key = "bulkThreshold" ->
         [min |-> 1, max |-> 5000, text |-> "Value must be between 0.01 and 50"]
    [] key = "highEndThreshold" ->
         [min |-> 5000, max |-> 1000000, text |-> "Value must be between 50 and 10000"]
    [] key \in {TierErrorKey(i, "lowerBound") : i \in 1..Len(DialogDefaults.pricingTiers)} ->
         [min |-> 1, max |-> 100000, text |-> "Value must be between 0.01 and 1000"]
    [] OTHER ->
         [min |-> 1, max |-> 100, text |-> "Value must be between 0.01 and 1"]

\* A typed value is a number: digits, with at most one decimal point
IsNumeric(value) ==
  /\ \E i \in 1..Len(value) : IsDigit(value[i])
  /\ \A i \in 1..Len(value) : IsDigit(value[i]) \/ value[i] = "."
  /\ Cardinality({i \in 1..Len(value) : value[i] = "."}) <= 1

OutOfRange(key, value) ==
  ~IsNumeric(value) \/ ParseFloat(value) < FieldRange(key).min
                    \/ ParseFloat(value) > FieldRange(key).max

ErrorOutstanding == showSettings /\ \E k \in ErrorKeys : Has(dialog.errors[k], "message")

\* C26: an edit whose value is not a number or lies outside the field's range
\* leaves every field of the dialog's settings, the parent's settings and the
\* store as they were and records the message of the field's range for that
\* field only; Save, while an error is outstanding, writes nothing to the
\* store and hands nothing to the parent.
C26_RejectedFieldByField ==
  /\ [][(ev'.op = "edit" /\ OutOfRange(ev'.x, ev'.q)) =>
          /\ dialog'.settings = dialog.settings
          /\ dialog'.errors = [dialog.errors EXCEPT ![ev'.x] = Message(FieldRange(ev'.x).text)]
          /\ UNCHANGED <<settings, store>>]_vars
  /\ [][(ev'.op = "save" /\ ErrorOutstanding) =>
          UNCHANGED <<settings, store, dialog, showSettings>>]_vars

\* C26's case: Save was pressed while a field held an error
C26_Witness == ev.op = "save" /\ ev.x = "blocked" /\ ErrorOutstanding

\* C27: when a configuration that passed validation has been saved to the
\* store and the page is loaded again, the condition multipliers, the buy-cash
\* multipliers and the credit multiplier in effect are the ones saved.
C27_SaveReloadRoundTrip ==
  [][(ev.op = "save" /\ ev.x = "stored" /\ ev'.op = "reload") =>
       /\ settings'.conditionMultipliers = settings.conditionMultipliers
       /\ settings'.buyCashMultipliers = settings.buyCashMultipliers
       /\ settings'.creditMultiplier = settings.creditMultiplier]_vars

\* C27's case: a configuration with an edited condition multiplier, an edited
\* credit multiplier or an edited buy-cash multiplier was saved and reloaded
C27_Witness ==
  /\ ev.op = "reload"
  /\ store # Null
  /\ Has(store, "json")
  /\ settings = LoadSettings(store)
  /\ \/ settings.conditionMultipliers # ParentDefaults.conditionMultipliers
     \/ settings.buyCashMultipliers # ParentDefaults.buyCashMultipliers
     \/ settings.creditMultiplier # ParentDefaults.creditMultiplier

\* The fields of the documented shape of a pricing configuration
DocumentedKeys == {"conditionMultipliers", "buyCashMultipliers", "creditMultiplier",
                   "pricingTiers", "bulkThreshold", "highEndThreshold"}

\* The store is missing, is not JSON, or lacks a part of the documented shape
StoreUnusable ==
  \/ store = Null
  \/ ~Has(store, "json")
  \/ ~Has(store.json, "object")
  \/ \E k \in DocumentedKeys : ~Has(store.json.object, k)
  \/ ~Has(store.json.object.creditMultiplier, "number")

\* C28: after the settings are loaded, every documented field of the
\* configuration in effect is defined, and when the store is missing,
\* unparsable or lacks a part of the documented shape the configuration in
\* effect is the fixed defaults.
C28_DefaultsComplete ==
  ev.op \in {"init", "reload"} =>
    /\ \A k \in DocumentedKeys : Has(settings, k)
    /\ StoreUnusable => \A k \in DocumentedKeys : settings[k] = DialogDefaults[k]

\* C38: editing fields of the Settings dialog, a pricing tier's lower bound or
\* multiplier included, and then closing the dialog without saving leaves the
\* parent's settings, every tier in them, and the settings store exactly as
\* they were when the dialog was opened.
C38_CancelLeavesParentAlone ==
  [][ev'.op = "close"
     => (settings' = dialog.opened.settings /\ store' = dialog.opened.store)]_vars

----------------------------------------------------------------------------
(* Properties of the pricing, under SpecPricing *)

\* x >= h, for an amount x and a number h of hundredths
AtLeast(x, h) == x.num * 100 >= h * x.den

\* The tier of the configuration that a condition price selects: the highest
\* tier whose lower bound is not above the price, when the configuration has
\* tiers and the price is at or above the lowest bound and below the high-end
\* threshold; 0 when no tier is active
ActiveTier(conditionPrice) ==
  IF ~Has(settings, "pricingTiers") THEN 0
  ELSE LET tiers == settings.pricingTiers
           reached == {i \in 1..Len(tiers) : AtLeast(conditionPrice, tiers[i].lowerBound)}
       IN IF reached = {} THEN 0
          ELSE IF Has(settings, "highEndThreshold")
                  /\ AtLeast(conditionPrice, settings.highEndThreshold) THEN 0
          ELSE CHOOSE i \in reached :
                 \A j \in reached : tiers[j].lowerBound <= tiers[i].lowerBound

\* The row of the flat formula
FlatRow(base, c) ==
  LET price == Times(base, settings.conditionMultipliers[c])
      buyCash == Times(price, settings.buyCashMultipliers[c])
  IN [condition |-> c, price |-> price, buyCash |-> buyCash,
      buyCredit |-> Times(buyCash, settings.creditMultiplier)]

ExampleSettings ==
  /\ settings.conditionMultipliers.NM = 100
  /\ settings.conditionMultipliers.EX = 90
  /\ settings.buyCashMultipliers.NM = 85
  /\ settings.buyCashMultipliers.EX = 77
  /\ settings.creditMultiplier = 130

Shown(i, column, cents) == Cells(i, column) = {[cents |-> cents]}

\* C23: whenever the grid has data, the row of every condition for which no
\* tier is active is, in the order NM, EX, VG, G, the base price times the
\* condition multiplier, that price times the buy-cash multiplier, and that
\* buy-cash price times the credit multiplier; with base 100 and the example's
\* multipliers and no tiers the NM row shows 100.00, 85.00, 110.50 and the EX
\* row 90.00, 69.30, 90.09.
C23_FlatRows ==
  HasData =>
    /\ \A i \in 1..Len(Conditions) :
         ActiveTier(Times(pricing.lpMarketPrice, settings.conditionMultipliers[Conditions[i]])) = 0
           => RowData(i) = FlatRow(pricing.lpMarketPrice, Conditions[i])
    /\ (pricing.lpMarketPrice = Amount(100, 1) /\ ExampleSettings
        /\ ~Has(settings, "pricingTiers")) =>
         /\ Shown(1, "price", 10000) /\ Shown(1, "buyCash", 8500)
         /\ Shown(1, "buyCredit", 11050)
         /\ Shown(2, "price", 9000) /\ Shown(2, "buyCash", 6930)
         /\ Shown(2, "buyCredit", 9009)

\* C23's case: the grid shows the rows of base price 100 under the example's
\* multipliers, no tiers being configured
C23_Witness ==
  /\ HasData
  /\ pricing.lpMarketPrice = Amount(100, 1)
  /\ ExampleSettings
  /\ ~Has(settings, "pricingTiers")

\* The configured base-price modifier; 1 when none is configured
BasePriceModifier ==
  IF Has(settings, "basePriceModifier") THEN settings.basePriceModifier ELSE 100

\* C24: whenever the grid has data, the price of every row is the market
\* price times the base-price modifier times the condition multiplier, the
\* buy-cash price is that price times the flat or a tier's multiplier, and
\* the credit price is the buy-cash price times the credit multiplier.
C24_ModifierAppliedFirst ==
  HasData =>
    \A i \in 1..Len(Conditions) :
      LET adjustedBase == Times(pricing.lpMarketPrice, BasePriceModifier)
          price == Times(adjustedBase, settings.conditionMultipliers[Conditions[i]])
          multipliers ==
            {settings.buyCashMultipliers[Conditions[i]]} \cup
            (IF Has(settings, "pricingTiers")
             THEN {settings.pricingTiers[j].multiplier :
                     j \in 1..Len(settings.pricingTiers)}
             ELSE {})
      IN /\ RowData(i).price = price
         /\ \E m \in multipliers : RowData(i).buyCash = Times(price, m)
         /\ RowData(i).buyCredit = Times(RowData(i).buyCash, settings.creditMultiplier)

\* C25: whenever the grid has data, the buy-cash price of a row is its
\* condition price times the multiplier of the tier the price selects, a
\* price equal to a tier's lower bound selecting that tier, and times the flat
\* buy-cash multiplier of the condition when the price selects no tier.
C25_TierOverridesFlat ==
  HasData =>
    \A i \in 1..Len(Conditions) :
      LET conditionPrice == RowData(i).price
          tier == ActiveTier(conditionPrice)
      IN RowData(i).buyCash =
           Times(conditionPrice,
                 IF tier = 0 THEN settings.buyCashMultipliers[Conditions[i]]
                 ELSE settings.pricingTiers[tier].multiplier)

PricingFailed ==
  ev.op = "pricing" /\ ev.x \in {"noLink", "noProductId", "noMarketPrice", "failed"}

\* C30: when the pricing lookup has failed (no link, no product id, a
\* response that is not ok, a rejected fetch, no market price for the finish)
\* the base price is null, loading is false, the error is not null and every
\* cell of every row shows N/A; no step of the lookup changes the selection,
\* the resolved variant or the search results; and once loading is false a
\* base price that is not null never stands beside an error that is not null.
C30_PricingFailureDegrades ==
  /\ [](/\ PricingFailed =>
              /\ pricing.lpMarketPrice = Null
              /\ ~pricing.loading
              /\ pricing.error # Null
              /\ \A i \in 1..Len(Conditions), column \in Columns :
                   Cells(i, column) = {NotAvailable}
        /\ ~pricing.loading => ~(pricing.lpMarketPrice # Null /\ pricing.error # Null))
  /\ [][ev'.op = "pricing" => UNCHANGED <<searchTerm, selVars>>]_vars

\* C30's case: the request for the product of a resolved variant failed
C30_Witness ==
  /\ PricingFailed
  /\ Truthy(selectedCardVersion)
  /\ pricing.productId # Null

\* C33: whenever the pricing state shows a non-null base price with loading
\* false (the effect of the last render having run), a variant is resolved and
\* the price is the response to the request for that variant's product: the
\* response to an earlier request never replaces or outlives the state of a
\* later one, and a response arriving after the selection became incomplete
\* does not repopulate the cleared pricing state.
C33_PriceBelongsToSelection ==
  (~EffectDue /\ pricing.lpMarketPrice # Null /\ ~pricing.loading)
  => /\ Truthy(selectedSet)
     /\ selectedCollectorNumber # <<>>
     /\ Truthy(selectedCardVersion)
     /\ pricing.productId = ExtractTCGPlayerProductId(TcgplayerUri(selectedCardVersion))

====
